---- MODULE Spec2Model ----
(***************************************************************************)
(* Model of the vraag-en-aanbod bulletin board: the client list filter of  *)
(* ProjectsPage and the server resource API (project CRUD and the admin    *)
(* request / approval workflow) in its three server variants.              *)
(*                                                                         *)
(* Strings that the code searches or lower-cases are sequences of          *)
(* one-character strings; strings that are only compared are TLA+ strings. *)
(* A JavaScript object is a function from its field names to its values:   *)
(* a missing field is a name outside the DOMAIN.                           *)
(***************************************************************************)
EXTENDS Integers, Sequences, FiniteSets, TLC

VARIABLES
    \* ---- client: ProjectsPage state ----
    projects,           \* the project collection fetched from the server
    filteredProjects,   \* the derived, filtered view
    searchTerm,         \* free-text criterion ('' = inactive)
    selectedCategory,   \* category criterion ('all' = inactive)
    selectedSkill,      \* skill criterion ('all' = inactive)
    selectedUrgency,    \* urgency criterion ('all' = inactive)
    filterStatus,       \* "done" | "error": did the last filterProjects run return or throw
    page,               \* ProjectsPage: the handler in progress, its last notification, loading
    form,               \* AddProjectPage: formData, submitting, the create requests sent
    app,                \* App: theme, language and access in memory and in localStorage
    cms,                \* AdminCMS: the accessToken prop, loading, the fetch in progress
    \* ---- server ----
    variant,            \* which server source file is deployed
    kvProjects,         \* key-value store, the keys with prefix project_
    admin_users,        \* key-value store, key "admin_users" (read as [] when the key is absent)
    admin_requests,     \* key-value store, key "admin_requests" (read as [] when the key is absent)
    authUsers,          \* accounts held by the external auth provider (set of emails)
    now,                \* the server clock, in milliseconds
    boot,               \* initializeData: its position, and what it has written
    inflight,           \* the request handlers that are between two awaits, with their locals
    resp,               \* the request just handled and the response returned for it
    createdIds,         \* history: the ids returned by the create calls so far
    deletedIds,         \* history: the ids deleted successfully since the last create
    handled             \* history: the number of requests handled so far

viewVars == <<page, form, app, cms>>
clientVars == <<projects, filteredProjects, searchTerm, selectedCategory,
                selectedSkill, selectedUrgency, filterStatus, page, form, app, cms>>
serverVars == <<variant, kvProjects, admin_users, admin_requests, authUsers,
                now, boot, inflight, resp, createdIds, deletedIds, handled>>
vars == <<projects, filteredProjects, searchTerm, selectedCategory,
          selectedSkill, selectedUrgency, filterStatus, page, form, app, cms,
          variant, kvProjects, admin_users, admin_requests, authUsers,
          now, boot, inflight, resp, createdIds, deletedIds, handled>>

-----------------------------------------------------------------------------
(* Bounds *)

MaxProjects == 3        \* length of the client's project collection
MaxTime == 1            \* last clock value
MaxHandled == 3         \* requests handled in one behaviour
MaxStored == 2          \* created projects held by the store at once
MaxRequests == 2        \* entries of admin_requests
MaxAdmins == 3          \* entries of admin_users

-----------------------------------------------------------------------------
(* Strings *)

\* String.prototype.toLowerCase on one character
LowerChar(c) ==
    CASE c = "A" -> "a" [] c = "C" -> "c" [] c = "D" -> "d" [] c = "E" -> "e"
      [] c = "F" -> "f" [] c = "I" -> "i" [] c = "J" -> "j" [] c = "L" -> "l"
      [] c = "N" -> "n" [] c = "R" -> "r" [] c = "T" -> "t" [] c = "V" -> "v"
      [] OTHER -> c

\* String.prototype.toLowerCase
toLowerCase(s) == [i \in 1..Len(s) |-> LowerChar(s[i])]

\* String.prototype.includes: t occurs in s as a contiguous substring
includes(s, t) ==
    \E i \in 0..(Len(s) - Len(t)) : SubSeq(s, i + 1, i + Len(t)) = t

sEmpty == <<>>
sAll == <<"a", "l", "l">>
sReact == <<"R", "e", "a", "c", "t">>
sFigma == <<"F", "i", "g", "m", "a">>
sDesign == <<"D", "e", "s", "i", "g", "n">>
sVideo == <<"V", "i", "d", "e", "o">>
sLogo == <<"L", "o", "g", "o">>
sNormal == <<"n", "o", "r", "m", "a", "l">>
sUrgent == <<"u", "r", "g", "e", "n", "t">>
sBo == <<"B", "o">>
sJoanna == <<"J", "o", "a", "n", "n", "a">>
sUsesReact == <<"a", " ", "R", "E", "A", "C", "T">>
sX == <<"x">>
\* search terms typed by the user
tReact == <<"r", "e", "a", "c", "t">>
tVID == <<"V", "I", "D">>
tAnn == <<"a", "n", "n">>

-----------------------------------------------------------------------------
(* Objects *)

Has(o, f) == f \in DOMAIN o

\* { ...a, ...b }: object spread, the fields of b win
Spread(a, b) ==
    [f \in (DOMAIN a) \cup (DOMAIN b) |-> IF f \in DOMAIN b THEN b[f] ELSE a[f]]

\* the object o without field f
Without(o, f) == [g \in (DOMAIN o) \ {f} |-> o[g]]

\* Date.prototype.toISOString: fixed-width, zero-padded digits, so that the
\* string order of two timestamps is their time order
toISOString(t) == <<t \div 10, t % 10>>

\* new Date(s).getTime(): the milliseconds of a well-formed timestamp, NaN otherwise
NaN == 0 - 1
getTime(s) ==
    IF Len(s) = 2 /\ s[1] \in 0..9 /\ s[2] \in 0..9 THEN s[1] * 10 + s[2] ELSE NaN

-----------------------------------------------------------------------------
(* Server: POST /projects builds the stored record *)

\* the key `project_${Date.now()}_${Math.random().toString(36).substr(2, 9)}`
ProjectKey(t, r) == <<ToString(t), r>>

\* { id: projectId, ...projectData, createdAt: ..., updatedAt: ... }
NewProject(projectId, projectData, tCreated, tUpdated) ==
    Spread(Spread([id |-> projectId], projectData),
           [createdAt |-> toISOString(tCreated), updatedAt |-> toISOString(tUpdated)])

-----------------------------------------------------------------------------
(* Client: ProjectsPage.filterProjects *)

\* SearchEval comparing the fields as stored, without toLowerCase
SearchEval_CaseSensitive(project, term) ==
    IF ~Has(project, "title") THEN "throw"
    ELSE IF includes(project.title, term) THEN "true"
    ELSE IF ~Has(project, "description") THEN "throw"
    ELSE IF includes(project.description, term) THEN "true"
    ELSE IF ~Has(project, "category") THEN "throw"
    ELSE IF includes(project.category, term) THEN "true"
    ELSE IF ~Has(project, "skills") THEN "throw"
    ELSE IF \E i \in 1..Len(project.skills) : includes(project.skills[i], term) THEN "true"
    ELSE IF ~Has(project, "studentName") THEN "throw"
    ELSE IF includes(project.studentName, term) THEN "true"
    ELSE "false"

\* the predicate of the free-text filter, evaluated left to right with
\* short-circuit ||; reading a method of a missing field throws a TypeError
SearchEval(project, term) ==
    IF ~Has(project, "title") THEN "throw"
    ELSE IF includes(toLowerCase(project.title), term) THEN "true"
    ELSE IF ~Has(project, "description") THEN "throw"
    ELSE IF includes(toLowerCase(project.description), term) THEN "true"
    ELSE IF ~Has(project, "category") THEN "throw"
    ELSE IF includes(toLowerCase(project.category), term) THEN "true"
    ELSE IF ~Has(project, "skills") THEN "throw"
    ELSE IF \E i \in 1..Len(project.skills) :
                includes(toLowerCase(project.skills[i]), term) THEN "true"
    ELSE IF ~Has(project, "studentName") THEN "throw"
    ELSE IF includes(toLowerCase(project.studentName), term) THEN "true"
    ELSE "false"

\* project.category === selectedCategory (a missing field is undefined: no match)
CategoryEval(project, cat) ==
    IF Has(project, "category") /\ project.category = cat THEN "true" ELSE "false"

\* project.skills.includes(selectedSkill)
SkillEval(project, skill) ==
    IF ~Has(project, "skills") THEN "throw"
    ELSE IF \E i \in 1..Len(project.skills) : project.skills[i] = skill THEN "true"
    ELSE "false"

\* UrgencyEval with the urgency criterion not applied
UrgencyEval_Ignored(project, urg) == "true"

\* project.urgency === selectedUrgency
UrgencyEval(project, urg) ==
    IF Has(project, "urgency") /\ project.urgency = urg THEN "true" ELSE "false"

Thrown == [ok |-> FALSE, list |-> <<>>]

\* KeepTrue collecting the kept elements in reverse order
RECURSIVE KeepTrue_Reversed(_, _)
KeepTrue_Reversed(list, verdicts) ==
    IF list = <<>> THEN <<>>
    ELSE KeepTrue_Reversed(Tail(list), Tail(verdicts))
         \o (IF Head(verdicts) = "true" THEN <<Head(list)>> ELSE <<>>)

\* the elements of list whose verdict is "true", in the order of list
RECURSIVE KeepTrue(_, _)
KeepTrue(list, verdicts) ==
    IF list = <<>> THEN <<>>
    ELSE (IF Head(verdicts) = "true" THEN <<Head(list)>> ELSE <<>>)
         \o KeepTrue(Tail(list), Tail(verdicts))

\* Array.prototype.filter, given the predicate's verdict for each element:
\* the call throws when the predicate throws for an element, otherwise it
\* keeps the elements for which the predicate is true, in order
ArrayFilter(r, verdicts) ==
    IF ~r.ok THEN r
    ELSE IF \E i \in 1..Len(r.list) : verdicts[i] = "throw" THEN Thrown
    ELSE [ok |-> TRUE, list |-> KeepTrue(r.list, verdicts)]

\* if (searchTerm) filtered = filtered.filter(...)
ApplySearch(r, term) ==
    IF term = sEmpty \/ ~r.ok THEN r
    ELSE ArrayFilter(r, [i \in 1..Len(r.list) |-> SearchEval(r.list[i], toLowerCase(term))])

\* if (selectedCategory !== 'all') filtered = filtered.filter(...)
ApplyCategory(r, cat) ==
    IF cat = sAll \/ ~r.ok THEN r
    ELSE ArrayFilter(r, [i \in 1..Len(r.list) |-> CategoryEval(r.list[i], cat)])

\* if (selectedSkill !== 'all') filtered = filtered.filter(...)
ApplySkill(r, skill) ==
    IF skill = sAll \/ ~r.ok THEN r
    ELSE ArrayFilter(r, [i \in 1..Len(r.list) |-> SkillEval(r.list[i], skill)])

\* if (selectedUrgency !== 'all') filtered = filtered.filter(...)
ApplyUrgency(r, urg) ==
    IF urg = sAll \/ ~r.ok THEN r
    ELSE ArrayFilter(r, [i \in 1..Len(r.list) |-> UrgencyEval(r.list[i], urg)])

\* filterProjects: the four filters in the order of the code
FilterProjects(ps, term, cat, skill, urg) ==
    ApplyUrgency(
        ApplySkill(
            ApplyCategory(
                ApplySearch([ok |-> TRUE, list |-> ps], term),
                cat),
            skill),
        urg)

-----------------------------------------------------------------------------
(* Client: inputs *)

\* request bodies of POST /projects: the AddProjectPage form sends the first
\* five; the server stores any JSON object, so fields may be missing
bodyReactTitle ==
    [title |-> sReact, description |-> sX, category |-> sDesign,
     skills |-> <<sFigma>>, urgency |-> sUrgent, studentName |-> sBo, contactInfo |-> sX]
bodyReactDescription ==
    [title |-> sLogo, description |-> sUsesReact, category |-> sVideo,
     skills |-> <<>>, urgency |-> sNormal, studentName |-> sJoanna, contactInfo |-> sX]
bodyReactSkill ==
    [title |-> sLogo, description |-> sX, category |-> sVideo,
     skills |-> <<sFigma, sReact>>, urgency |-> sNormal, studentName |-> sBo, contactInfo |-> sX]
bodyNoSkills == Without(bodyReactSkill, "skills")
bodyTitleOnly == [title |-> sReact]

FilterBodies ==
    {bodyReactTitle, bodyReactDescription, bodyReactSkill, bodyNoSkills, bodyTitleOnly}

SearchTerms == {sEmpty, tReact, tVID, tAnn}
CategoryChoices == {sAll, sDesign, sVideo}
SkillChoices == {sAll, sReact}
UrgencyChoices == {sAll, sUrgent}

\* what GET /projects returns for a store holding the records created from
\* bodies, the last one created first: newest first
FetchedProjects(bodies) ==
    [i \in 1..Len(bodies) |->
        LET t == Len(bodies) - i
        IN  NewProject(ProjectKey(t, "a"), bodies[i], t, t)]

BodyLists == UNION {[1..n -> FilterBodies] : n \in 0..MaxProjects}

-----------------------------------------------------------------------------
(* Client: ProjectsPage, after mount and the first fetch *)

\* ProjectsPage with no handler in progress: the first fetchData has finished
PageIdle ==
    [pc |-> "idle", op |-> "none", target |-> <<>>, sentAt |-> 0, answered |-> FALSE,
     refetched |-> FALSE, toast |-> "none", loading |-> FALSE]

\* AddProjectPage is not mounted
FormIdle == [pc |-> "unmounted"]

\* App is not mounted
AppIdle == [pc |-> "unmounted"]

\* AdminCMS is not mounted
CmsIdle == [pc |-> "unmounted"]

\* the other components take no part
ViewIdle == page = PageIdle /\ form = FormIdle /\ app = AppIdle /\ cms = CmsIdle

\* no request handler is between two awaits
NoInflight == <<>>

\* initializeData has run to its end; usersKey: it has written the key
\* admin_users; adminsAtStart, handledAtStart: the number of admin_users
\* entries and of handled requests when the run began
BootDone(usersKey) ==
    [pc |-> "done", usersKey |-> usersKey, adminsAtStart |-> 0, handledAtStart |-> 0]

ServerIdle ==
    /\ variant = "index.tsx"
    /\ boot = BootDone(TRUE)
    /\ inflight = NoInflight
    /\ kvProjects = <<>>
    /\ admin_users = <<>>
    /\ admin_requests = <<>>
    /\ authUsers = {}
    /\ now = 0
    /\ resp = [op |-> "none"]
    /\ createdIds = {}
    /\ deletedIds = {}
    /\ handled = 0

InitFilter ==
    /\ \E bodies \in BodyLists : projects = FetchedProjects(bodies)
    /\ searchTerm = sEmpty
    /\ selectedCategory = sAll
    /\ selectedSkill = sAll
    /\ selectedUrgency = sAll
    /\ filteredProjects = projects
    /\ filterStatus = "done"
    /\ ViewIdle
    /\ ServerIdle

\* the effect that re-runs filterProjects when a dependency changed: on
\* return it stores the result, on a throw the render fails and
\* setFilteredProjects is never reached
RunFilterEffect(term, cat, skill, urg) ==
    LET r == FilterProjects(projects, term, cat, skill, urg)
    IN  /\ filterStatus' = IF r.ok THEN "done" ELSE "error"
        /\ filteredProjects' = IF r.ok THEN r.list ELSE filteredProjects

SetSearchTerm ==
    /\ filterStatus = "done"
    /\ \E v \in SearchTerms :
        /\ v # searchTerm
        /\ searchTerm' = v
        /\ RunFilterEffect(v, selectedCategory, selectedSkill, selectedUrgency)
    /\ UNCHANGED <<projects, selectedCategory, selectedSkill, selectedUrgency>>
    /\ UNCHANGED viewVars
    /\ UNCHANGED serverVars

SetSelectedCategory ==
    /\ filterStatus = "done"
    /\ \E v \in CategoryChoices :
        /\ v # selectedCategory
        /\ selectedCategory' = v
        /\ RunFilterEffect(searchTerm, v, selectedSkill, selectedUrgency)
    /\ UNCHANGED <<projects, searchTerm, selectedSkill, selectedUrgency>>
    /\ UNCHANGED viewVars
    /\ UNCHANGED serverVars

SetSelectedSkill ==
    /\ filterStatus = "done"
    /\ \E v \in SkillChoices :
        /\ v # selectedSkill
        /\ selectedSkill' = v
        /\ RunFilterEffect(searchTerm, selectedCategory, v, selectedUrgency)
    /\ UNCHANGED <<projects, searchTerm, selectedCategory, selectedUrgency>>
    /\ UNCHANGED viewVars
    /\ UNCHANGED serverVars

SetSelectedUrgency ==
    /\ filterStatus = "done"
    /\ \E v \in UrgencyChoices :
        /\ v # selectedUrgency
        /\ selectedUrgency' = v
        /\ RunFilterEffect(searchTerm, selectedCategory, selectedSkill, v)
    /\ UNCHANGED <<projects, searchTerm, selectedCategory, selectedSkill>>
    /\ UNCHANGED viewVars
    /\ UNCHANGED serverVars

NextFilter ==
    \/ SetSearchTerm
    \/ SetSelectedCategory
    \/ SetSelectedSkill
    \/ SetSelectedUrgency

SpecFilter == InitFilter /\ [][NextFilter]_vars

-----------------------------------------------------------------------------
(* Claims about the client filter *)

Range(s) == {s[i] : i \in 1..Len(s)}

\* the free-text predicate as the contract states it: the lower-cased term
\* is a substring of one of the five lower-cased fields
TermMatches(p, term) ==
    LET t == toLowerCase(term)
    IN  \/ Has(p, "title") /\ includes(toLowerCase(p.title), t)
        \/ Has(p, "description") /\ includes(toLowerCase(p.description), t)
        \/ Has(p, "category") /\ includes(toLowerCase(p.category), t)
        \/ Has(p, "skills") /\ \E s \in Range(p.skills) : includes(toLowerCase(s), t)
        \/ Has(p, "studentName") /\ includes(toLowerCase(p.studentName), t)

\* p satisfies every active predicate of the current criteria
SatisfiesAll(p) ==
    /\ searchTerm # sEmpty => TermMatches(p, searchTerm)
    /\ selectedCategory # sAll => Has(p, "category") /\ p.category = selectedCategory
    /\ selectedSkill # sAll => Has(p, "skills") /\ selectedSkill \in Range(p.skills)
    /\ selectedUrgency # sAll => Has(p, "urgency") /\ p.urgency = selectedUrgency

\* C1: whenever filterProjects returns, the filtered list is a subset of the
\* project collection, every project in it satisfies every active predicate,
\* and no project that satisfies all of them is left out.
C1_FilterSubsetAnd ==
    filterStatus = "done" =>
        /\ Range(filteredProjects) \subseteq Range(projects)
        /\ \A p \in Range(filteredProjects) : SatisfiesAll(p)
        /\ \A p \in Range(projects) : SatisfiesAll(p) => p \in Range(filteredProjects)

\* two predicates are active, one project is kept and one is dropped
C1_Witness ==
    /\ filterStatus = "done"
    /\ searchTerm # sEmpty
    /\ selectedUrgency # sAll
    /\ filteredProjects # <<>>
    /\ Len(filteredProjects) < Len(projects)

\* C2: with only the free-text criterion active, a project is in the filtered
\* list exactly when the lower-cased term is a substring of its lower-cased
\* title, description, category, one of its skills, or studentName.
C2_SearchCaseInsensitive ==
    (/\ filterStatus = "done"
     /\ searchTerm # sEmpty
     /\ selectedCategory = sAll /\ selectedSkill = sAll /\ selectedUrgency = sAll)
    => \A p \in Range(projects) :
            p \in Range(filteredProjects) <=> TermMatches(p, searchTerm)

\* the term 'react' returns a project that matches only by its skill 'React'
C2_Witness ==
    /\ filterStatus = "done"
    /\ searchTerm = tReact
    /\ selectedCategory = sAll /\ selectedSkill = sAll /\ selectedUrgency = sAll
    /\ \E p \in Range(filteredProjects) :
        /\ Has(p, "skills") /\ sReact \in Range(p.skills)
        /\ ~includes(toLowerCase(p.title), tReact)
        /\ ~includes(toLowerCase(p.description), tReact)

\* the position of a project in the input collection
PositionIn(list, p) == CHOOSE k \in 1..Len(list) : list[k] = p

\* C3: any two projects of the filtered list are in the same relative order
\* as in the input collection.
C3_FilterPreservesOrder ==
    filterStatus = "done" =>
        \A i, j \in 1..Len(filteredProjects) :
            i < j => /\ filteredProjects[i] \in Range(projects)
                     /\ filteredProjects[j] \in Range(projects)
                     /\ PositionIn(projects, filteredProjects[i])
                            < PositionIn(projects, filteredProjects[j])

\* two projects are kept around one that an active predicate drops
C3_Witness ==
    /\ filterStatus = "done"
    /\ Len(projects) = 3
    /\ Len(filteredProjects) = 2
    /\ filteredProjects[1] = projects[1]
    /\ filteredProjects[2] = projects[3]

\* C4: filterProjects completes without an error for every stored project
\* record and every combination of criteria.
C4_FilterTotal == filterStatus = "done"

-----------------------------------------------------------------------------
(* Server: state after initializeData *)

Variants == {"index.tsx", "part_001", "part_002"}

\* the variants whose update and delete handlers call verifyAdmin
AuthVariants == {"index.tsx", "part_001"}

InitialAdminEmail == "admin@glu.nl"
Emails == {InitialAdminEmail, "u1@glu.nl", "u2@glu.nl"}

\* the seeded administrator of index.tsx
initialAdmin ==
    [email |-> InitialAdminEmail, name |-> "GLU Administrator", approved |-> TRUE,
     approvedAt |-> toISOString(0), approvedBy |-> "system"]

\* Date.now() + 14 * 24 * 60 * 60 * 1000: beyond every clock value of the model
FarFuture == 99

\* the two sample projects of part_002
DemoKey1 == <<"demo", "1">>
DemoKey2 == <<"demo", "2">>
sampleProjects ==
    [k \in {DemoKey1, DemoKey2} |->
        IF k = DemoKey1
        THEN [id |-> DemoKey1, title |-> sLogo, description |-> sX, category |-> sDesign,
              skills |-> <<sFigma>>, urgency |-> sNormal, studentName |-> sBo,
              contactInfo |-> sX,
              createdAt |-> toISOString(0), updatedAt |-> toISOString(0)]
        ELSE [id |-> DemoKey2, title |-> sLogo, description |-> sUsesReact,
              category |-> sVideo, skills |-> <<sReact>>, urgency |-> sUrgent,
              studentName |-> sBo, contactInfo |-> sX,
              deadline |-> toISOString(FarFuture),
              createdAt |-> toISOString(0), updatedAt |-> toISOString(0)]]

\* ProjectsPage holds no project and no criterion is set
ListIdle ==
    /\ projects = <<>>
    /\ filteredProjects = <<>>
    /\ searchTerm = sEmpty
    /\ selectedCategory = sAll
    /\ selectedSkill = sAll
    /\ selectedUrgency = sAll
    /\ filterStatus = "done"

ClientIdle == ListIdle /\ ViewIdle

\* the store and the auth provider once initializeData has run on an empty store
InitServer ==
    /\ variant \in Variants
    /\ kvProjects = IF variant = "part_002" THEN sampleProjects ELSE <<>>
    /\ admin_users = IF variant = "index.tsx" THEN <<initialAdmin>> ELSE <<>>
    /\ admin_requests = <<>>
    /\ authUsers = IF variant = "index.tsx" THEN {InitialAdminEmail} ELSE {}
    /\ boot = BootDone(variant # "part_002")
    /\ inflight = NoInflight
    /\ now = 0
    /\ resp = [op |-> "none", status |-> 0, id |-> <<>>, body |-> <<>>, result |-> <<>>]
    /\ createdIds = {}
    /\ deletedIds = {}
    /\ handled = 0
    /\ ClientIdle

-----------------------------------------------------------------------------
(* Server: helpers *)

Min(a, b) == IF a < b THEN a ELSE b

\* the values a clock read can return, given the previous read
ClockAfter(t) == t..Min(t + 1, MaxTime)

\* the Authorization header: none, a token the provider rejects, or the
\* session token of an account (written as the account's email)
NoToken == ""
BadToken == "bad"
Tokens == {NoToken, BadToken} \cup Emails

\* the headers that make a difference to a project handler: those of
\* part_002 never read the Authorization header
ProjectTokens == IF variant \in AuthVariants THEN Tokens ELSE {NoToken}

\* no admin found (undefined / null)
NoAdmin == <<>>

\* verifyAdmin accepting every account the provider knows, without the
\* admin_users lookup
verifyAdmin_AnyUser(accessToken) ==
    IF accessToken = NoToken THEN NoAdmin
    ELSE IF accessToken \notin authUsers THEN NoAdmin
    ELSE [email |-> accessToken, approved |-> TRUE]

\* verifyAdmin(accessToken): the first approved admin_users entry with the
\* email of the token's user
verifyAdmin(accessToken) ==
    IF accessToken = NoToken THEN NoAdmin
    ELSE IF accessToken \notin authUsers THEN NoAdmin
    ELSE LET hits == {i \in 1..Len(admin_users) :
                        admin_users[i].email = accessToken /\ admin_users[i].approved}
         IN  IF hits = {} THEN NoAdmin
             ELSE admin_users[CHOOSE i \in hits : \A j \in hits : i <= j]

\* the suffix Math.random().toString(36).substr(2, 9) of a generated id
RandomSuffixes == {"a", "b"}

\* MergeUpdate storing the request body in place of the merged record
MergeUpdate_Replace(existingProject, updates, t) ==
    Spread(updates, [updatedAt |-> toISOString(t)])

\* { ...existingProject, ...updates, updatedAt: new Date().toISOString() }
MergeUpdate(existingProject, updates, t) ==
    Spread(Spread(existingProject, updates), [updatedAt |-> toISOString(t)])

\* the store without key k (kv.del)
Del(store, k) == [j \in (DOMAIN store) \ {k} |-> store[j]]

\* the store with value v under key k (kv.set)
Set(store, k, v) == [j \in (DOMAIN store) \cup {k} |-> IF j = k THEN v ELSE store[j]]

Response(op, status, id, body, result) ==
    [op |-> op, status |-> status, id |-> id, body |-> body, result |-> result]

\* the response of a handler that read the Authorization header, with the
\* bearer token c.req.header('Authorization')?.split(' ')[1] of the request
WithToken(response, accessToken) == Spread(response, [token |-> accessToken])

-----------------------------------------------------------------------------
(* Server: POST /projects *)

\* request bodies of POST /projects; no field is validated, and a body may
\* carry its own id
CreateBodies ==
    {[title |-> sLogo, category |-> sDesign],
     [title |-> sReact, deadline |-> toISOString(0)],
     [id |-> sEmpty, title |-> sLogo]}

\* the keys written by POST /projects (the sample projects are not)
CreatedKeys == (DOMAIN kvProjects) \ {DemoKey1, DemoKey2}

\* Date.now() of the id and the createdAt read fall in one tick (t1); the
\* updatedAt read that follows may see the next one (t2)
CreateProject ==
    /\ Cardinality(CreatedKeys) < MaxStored
    /\ handled < MaxHandled
    /\ handled' = handled + 1
    /\ \E projectData \in CreateBodies, r \in RandomSuffixes :
       \E t1 \in ClockAfter(now) : \E t2 \in ClockAfter(t1) :
        LET projectId == ProjectKey(t1, r)
            project == NewProject(projectId, projectData, t1, t2)
        IN  /\ kvProjects' = Set(kvProjects, projectId, project)
            /\ resp' = Response("create", 200, projectId, projectData, project)
            /\ createdIds' = createdIds \cup {project.id}
            /\ deletedIds' = {}
            /\ now' = t2
    /\ UNCHANGED <<variant, boot, inflight, admin_users, admin_requests, authUsers>>
    /\ UNCHANGED clientVars

-----------------------------------------------------------------------------
(* Server: PUT /projects/:id *)

\* the ids a request names: every stored key, and one key that may be absent
RequestIds == (DOMAIN kvProjects) \cup {ProjectKey(0, "a")}

\* request bodies of PUT /projects/:id: the edit form sends changed fields;
\* any JSON object is accepted, id and createdAt included, and createdAt
\* need not be a date
UpdateBodies ==
    {[title |-> sReact],
     [id |-> ProjectKey(0, "b"), createdAt |-> sX, updatedAt |-> toISOString(0)]}

UpdateProject ==
    /\ handled < MaxHandled
    /\ handled' = handled + 1
    /\ \E accessToken \in ProjectTokens, projectId \in RequestIds, updates \in UpdateBodies :
       \E t \in ClockAfter(now) :
        IF variant \in AuthVariants /\ verifyAdmin(accessToken) = NoAdmin
        THEN /\ resp' = WithToken(Response("update", 401, projectId, updates, <<>>), accessToken)
             /\ UNCHANGED <<kvProjects, now>>
        ELSE IF projectId \notin DOMAIN kvProjects
        THEN /\ resp' = WithToken(Response("update", 404, projectId, updates, <<>>), accessToken)
             /\ UNCHANGED <<kvProjects, now>>
        ELSE LET updatedProject == MergeUpdate(kvProjects[projectId], updates, t)
             IN  /\ kvProjects' = Set(kvProjects, projectId, updatedProject)
                 /\ resp' = WithToken(Response("update", 200, projectId, updates, updatedProject), accessToken)
                 /\ now' = t
    /\ UNCHANGED <<variant, boot, inflight, admin_users, admin_requests, authUsers, createdIds, deletedIds>>
    /\ UNCHANGED clientVars

-----------------------------------------------------------------------------
(* Server: DELETE /projects/:id *)

DeleteProject ==
    /\ handled < MaxHandled
    /\ handled' = handled + 1
    /\ \E accessToken \in ProjectTokens, projectId \in RequestIds :
        IF variant \in AuthVariants /\ verifyAdmin(accessToken) = NoAdmin
        THEN /\ resp' = WithToken(Response("delete", 401, projectId, <<>>, <<>>), accessToken)
             /\ UNCHANGED <<kvProjects, deletedIds>>
        ELSE IF variant # "index.tsx" /\ projectId \notin DOMAIN kvProjects
        THEN /\ resp' = WithToken(Response("delete", 404, projectId, <<>>, <<>>), accessToken)
             /\ UNCHANGED <<kvProjects, deletedIds>>
        ELSE /\ kvProjects' = Del(kvProjects, projectId)
             /\ resp' = WithToken(Response("delete", 200, projectId, <<>>, <<>>), accessToken)
             /\ deletedIds' = IF projectId \in DOMAIN kvProjects
                              THEN deletedIds \cup {projectId} ELSE deletedIds
    /\ UNCHANGED <<variant, boot, inflight, admin_users, admin_requests, authUsers, now, createdIds>>
    /\ UNCHANGED clientVars

-----------------------------------------------------------------------------
(* Server: GET /projects *)

\* a deadline that is set, parses as a date and lies before currentDate
Expired(project, t) ==
    /\ Has(project, "deadline")
    /\ project.deadline # sEmpty
    /\ getTime(project.deadline) # NaN
    /\ getTime(project.deadline) < t

\* cleanupExpiredProjects: kv.del(project.id) for every expired project of
\* the snapshot read at its start
cleanupExpiredProjects(store, t) ==
    LET doomed == {store[k].id : k \in {j \in DOMAIN store : Expired(store[j], t)}}
    IN  [k \in (DOMAIN store) \ doomed |-> store[k]]

\* one enumeration of the keys
RECURSIVE SomeOrder(_)
SomeOrder(keys) ==
    IF keys = {} THEN <<>>
    ELSE LET k == CHOOSE j \in keys : TRUE IN <<k>> \o SomeOrder(keys \ {k})

Reverse(s) == [i \in 1..Len(s) |-> s[Len(s) + 1 - i]]

\* the orders in which kv.getByPrefix can return the values of the keys: the
\* store's iteration order is not specified; an enumeration and its reverse
\* show every pair of records in both relative orders
StoreOrders(keys) == {SomeOrder(keys), Reverse(SomeOrder(keys))}

\* the search predicate of the list endpoint: no studentName, skills guarded
ServerSearchEval(project, term) ==
    IF ~Has(project, "title") THEN "throw"
    ELSE IF includes(toLowerCase(project.title), term) THEN "true"
    ELSE IF ~Has(project, "description") THEN "throw"
    ELSE IF includes(toLowerCase(project.description), term) THEN "true"
    ELSE IF ~Has(project, "category") THEN "throw"
    ELSE IF includes(toLowerCase(project.category), term) THEN "true"
    ELSE IF Has(project, "skills")
            /\ \E i \in 1..Len(project.skills) :
                    includes(toLowerCase(project.skills[i]), term) THEN "true"
    ELSE "false"

\* project.skills && project.skills.includes(skill)
ServerSkillEval(project, skill) ==
    IF Has(project, "skills") /\ \E i \in 1..Len(project.skills) : project.skills[i] = skill
    THEN "true" ELSE "false"

\* if (category) filteredProjects = filteredProjects.filter(...)
ServerApplyCategory(r, category) ==
    IF category = sEmpty \/ ~r.ok THEN r
    ELSE ArrayFilter(r, [i \in 1..Len(r.list) |-> CategoryEval(r.list[i], category)])

\* if (skill) filteredProjects = filteredProjects.filter(...)
ServerApplySkill(r, skill) ==
    IF skill = sEmpty \/ ~r.ok THEN r
    ELSE ArrayFilter(r, [i \in 1..Len(r.list) |-> ServerSkillEval(r.list[i], skill)])

\* if (urgency) filteredProjects = filteredProjects.filter(...)
ServerApplyUrgency(r, urgency) ==
    IF urgency = sEmpty \/ ~r.ok THEN r
    ELSE ArrayFilter(r, [i \in 1..Len(r.list) |-> UrgencyEval(r.list[i], urgency)])

\* if (search) filteredProjects = filteredProjects.filter(...)
ServerApplySearch(r, search) ==
    IF search = sEmpty \/ ~r.ok THEN r
    ELSE ArrayFilter(r, [i \in 1..Len(r.list) |->
                            ServerSearchEval(r.list[i], toLowerCase(search))])

\* the four filters of the list endpoint, in the order of the code; an
\* absent or empty query parameter is not applied
ServerFilter(all, category, skill, urgency, search) ==
    ServerApplySearch(
        ServerApplyUrgency(
            ServerApplySkill(
                ServerApplyCategory([ok |-> TRUE, list |-> all], category),
                skill),
            urgency),
        search)

\* the comparator new Date(b.createdAt).getTime() - new Date(a.createdAt).getTime();
\* Array.prototype.sort reads a NaN result as 0
CompareNewestFirst(a, b) ==
    IF getTime(a.createdAt) = NaN \/ getTime(b.createdAt) = NaN THEN 0
    ELSE getTime(b.createdAt) - getTime(a.createdAt)

\* e put into a sorted list, behind every element that does not sort after it
RECURSIVE InsertSorted(_, _)
InsertSorted(sorted, e) ==
    IF sorted = <<>> THEN <<e>>
    ELSE IF CompareNewestFirst(sorted[Len(sorted)], e) > 0
         THEN Append(InsertSorted(SubSeq(sorted, 1, Len(sorted) - 1), e),
                     sorted[Len(sorted)])
         ELSE Append(sorted, e)

\* Array.prototype.sort with CompareNewestFirst (stable)
RECURSIVE SortNewestFirst(_)
SortNewestFirst(list) ==
    IF list = <<>> THEN <<>>
    ELSE InsertSorted(SortNewestFirst(SubSeq(list, 1, Len(list) - 1)), list[Len(list)])

\* the query parameters a list request carries in this model
NoQuery == [category |-> sEmpty, skill |-> sEmpty, urgency |-> sEmpty, search |-> sEmpty]
ListQueries ==
    {NoQuery,
     [NoQuery EXCEPT !.category = sDesign, !.skill = sFigma, !.urgency = sNormal],
     [NoQuery EXCEPT !.search = tReact]}

ListProjects ==
    /\ handled < MaxHandled
    /\ handled' = handled + 1
    /\ \E query \in ListQueries :
       \E t \in (IF variant = "part_002" THEN ClockAfter(now) ELSE {now}) :
        LET swept == IF variant = "part_002"
                     THEN cleanupExpiredProjects(kvProjects, t) ELSE kvProjects
        IN  /\ kvProjects' = swept
            /\ now' = t
            /\ \E order \in StoreOrders(DOMAIN kvProjects') :
                LET allProjects == [i \in 1..Len(order) |-> kvProjects'[order[i]]]
                    r == ServerFilter(allProjects, query.category, query.skill,
                                      query.urgency, query.search)
                IN  resp' = IF r.ok
                            THEN Response("list", 200, <<>>, query, SortNewestFirst(r.list))
                            ELSE Response("list", 500, <<>>, query, <<>>)
    /\ UNCHANGED <<variant, boot, inflight, admin_users, admin_requests, authUsers, createdIds, deletedIds>>
    /\ UNCHANGED clientVars

-----------------------------------------------------------------------------
(* Server: POST /admin/create-initial (part_001) *)

createUserOk(email, password) == email \notin authUsers /\ password = "secret1"

Passwords == {"secret1", "short"}

CreateInitialAdmin ==
    /\ variant = "part_001"
    /\ handled < MaxHandled
    /\ handled' = handled + 1
    /\ \E email \in Emails, password \in Passwords :
       \E t \in ClockAfter(now) :
        IF ~createUserOk(email, password)
        THEN /\ resp' = Response("create-initial", 500, <<>>, <<>>, <<>>)
             /\ UNCHANGED <<admin_users, authUsers, now>>
        ELSE /\ Len(admin_users) < MaxAdmins
             /\ authUsers' = authUsers \cup {email}
             /\ admin_users' = Append(admin_users,
                    [email |-> email, name |-> "name", approved |-> TRUE,
                     approvedAt |-> toISOString(t), approvedBy |-> "system"])
             /\ resp' = Response("create-initial", 200, <<>>, <<>>, <<>>)
             /\ now' = t
    /\ UNCHANGED <<variant, boot, inflight, kvProjects, admin_requests, createdIds, deletedIds>>
    /\ UNCHANGED clientVars

-----------------------------------------------------------------------------
(* Server: POST /admin/request *)

\* the id `request_${Date.now()}_${Math.random().toString(36).substr(2, 9)}`
RequestKey(t, r) == <<"request", ToString(t), r>>

\* Date.now() of the id and the createdAt read fall in one tick
SubmitRequest ==
    /\ handled < MaxHandled
    /\ handled' = handled + 1
    /\ \E email \in Emails, password \in Passwords, r \in RandomSuffixes :
       \E t \in ClockAfter(now) :
        IF ~createUserOk(email, password)
        THEN /\ resp' = Response("request", 500, <<>>, [email |-> email], <<>>)
             /\ UNCHANGED <<admin_requests, authUsers, now>>
        ELSE LET requestId == RequestKey(t, r)
                 request == [id |-> requestId, email |-> email, name |-> "name",
                             createdAt |-> toISOString(t), approved |-> FALSE]
             IN  /\ Len(admin_requests) < MaxRequests
                 /\ authUsers' = authUsers \cup {email}
                 /\ admin_requests' = Append(admin_requests, request)
                 /\ resp' = Response("request", 200, requestId, [email |-> email], <<>>)
                 /\ now' = t
    /\ UNCHANGED <<variant, boot, inflight, kvProjects, admin_users, createdIds, deletedIds>>
    /\ UNCHANGED clientVars

-----------------------------------------------------------------------------
(* Server: PUT /admin/requests/:id/approve *)

\* findIndex taking the first request whatever its id
findIndex_First(adminRequests, requestId) ==
    IF adminRequests = <<>> THEN 0 ELSE 1

\* adminRequests.findIndex(req => req.id === requestId); 0 stands for -1
findIndex(adminRequests, requestId) ==
    LET hits == {i \in 1..Len(adminRequests) : adminRequests[i].id = requestId}
    IN  IF hits = {} THEN 0 ELSE CHOOSE i \in hits : \A j \in hits : i <= j

\* the ids an approve call names: every stored request id, and one that may be absent
ApproveIds == {admin_requests[i].id : i \in 1..Len(admin_requests)} \cup {RequestKey(0, "a")}

\* part_002 calls a verifyAdmin it does not define: the ReferenceError is
\* caught by the handler's try/catch and answered with 500
ApproveRequest ==
    /\ handled < MaxHandled
    /\ handled' = handled + 1
    /\ \E accessToken \in Tokens, requestId \in ApproveIds :
       \E t \in ClockAfter(now) :
        LET admin == verifyAdmin(accessToken)
            requestIndex == findIndex(admin_requests, requestId)
        IN  IF variant = "part_002"
            THEN /\ resp' = Response("approve", 500, requestId, [token |-> accessToken], <<>>)
                 /\ UNCHANGED <<admin_requests, admin_users, now>>
            ELSE IF admin = NoAdmin
            THEN /\ resp' = Response("approve", 401, requestId, [token |-> accessToken], <<>>)
                 /\ UNCHANGED <<admin_requests, admin_users, now>>
            ELSE IF requestIndex = 0
            THEN /\ resp' = Response("approve", 404, requestId, [token |-> accessToken], <<>>)
                 /\ UNCHANGED <<admin_requests, admin_users, now>>
            ELSE LET request == Spread(admin_requests[requestIndex],
                                       [approved |-> TRUE,
                                        approvedAt |-> toISOString(t),
                                        approvedBy |-> admin.email])
                 IN  /\ Len(admin_users) < MaxAdmins
                     /\ admin_requests' = [admin_requests EXCEPT ![requestIndex] = request]
                     /\ admin_users' = Append(admin_users,
                            [email |-> request.email, name |-> request.name,
                             approved |-> TRUE, approvedAt |-> request.approvedAt,
                             approvedBy |-> admin.email])
                     /\ resp' = Response("approve", 200, requestId, [token |-> accessToken], <<>>)
                     /\ now' = t
    /\ UNCHANGED <<variant, boot, inflight, kvProjects, authUsers, createdIds, deletedIds>>
    /\ UNCHANGED clientVars

-----------------------------------------------------------------------------
(* Server: GET /admin/requests *)

\* adminRequests.filter(req => !req.approved)
pendingRequests(adminRequests) == SelectSeq(adminRequests, LAMBDA req : ~req.approved)

\* part_002 calls a verifyAdmin it does not define: the ReferenceError is
\* caught by the handler's try/catch and answered with 500
ListRequests ==
    /\ handled < MaxHandled
    /\ handled' = handled + 1
    /\ \E accessToken \in Tokens :
        LET admin == verifyAdmin(accessToken)
        IN  IF variant = "part_002"
            THEN resp' = Response("list-requests", 500, <<>>, [token |-> accessToken], <<>>)
            ELSE IF admin = NoAdmin
            THEN resp' = Response("list-requests", 401, <<>>, [token |-> accessToken], <<>>)
            ELSE resp' = Response("list-requests", 200, <<>>, [token |-> accessToken],
                                  pendingRequests(admin_requests))
    /\ UNCHANGED <<variant, boot, inflight, kvProjects, admin_users, admin_requests, authUsers, now,
                   createdIds, deletedIds>>
    /\ UNCHANGED clientVars

-----------------------------------------------------------------------------
(* Server: POST /admin/force-create (index.tsx, part_002) *)

\* createUser's error is logged and ignored; the admin@glu.nl entry is pushed
\* unless admin_users holds one with that email
ForceCreate ==
    /\ variant # "part_001"
    /\ handled < MaxHandled
    /\ handled' = handled + 1
    /\ \E t \in ClockAfter(now) :
        LET existingAdmin == \E i \in 1..Len(admin_users) :
                                admin_users[i].email = InitialAdminEmail
        IN  /\ authUsers' = authUsers \cup {InitialAdminEmail}
            /\ IF existingAdmin
               THEN UNCHANGED <<admin_users, now>>
               ELSE /\ Len(admin_users) < MaxAdmins
                    /\ admin_users' = Append(admin_users,
                            [initialAdmin EXCEPT !.approvedAt = toISOString(t)])
                    /\ now' = t
            /\ resp' = Response("force-create", 200, <<>>, <<>>, admin_users')
    /\ UNCHANGED <<variant, boot, inflight, kvProjects, admin_requests, createdIds, deletedIds>>
    /\ UNCHANGED clientVars

-----------------------------------------------------------------------------
(* Server: POST /admin/login *)

\* an email as typed into the request: its text, with a " " element for
\* whitespace before or after it
TypedEmails ==
    {<<e>> : e \in Emails}
        \cup {<<>>, <<" ", InitialAdminEmail>>, <<"u1@glu.nl", " ">>}

\* String.prototype.trim
trim(s) ==
    LET inked == {i \in 1..Len(s) : s[i] # " "}
    IN  IF inked = {} THEN <<>>
        ELSE SubSeq(s, CHOOSE i \in inked : \A j \in inked : i <= j,
                       CHOOSE i \in inked : \A j \in inked : i >= j)

\* no account signed in
NoUser == ""

\* supabase.auth.signInWithPassword: the account whose email is exactly the
\* one given, when the password is that account's
signInWithPassword(email, password) ==
    IF Len(email) = 1 /\ email[1] \in authUsers /\ password = "secret1"
    THEN email[1] ELSE NoUser

\* adminUsers.find(admin => admin.email === email && admin.approved)
findAdmin(adminUsers, email) ==
    LET hits == {i \in 1..Len(adminUsers) :
                    <<adminUsers[i].email>> = email /\ adminUsers[i].approved}
    IN  IF hits = {} THEN NoAdmin
        ELSE adminUsers[CHOOSE i \in hits : \A j \in hits : i <= j]

\* index.tsx and part_002 reject an empty field and sign in with the trimmed
\* email; part_001 signs in with the email as typed; all look the admin up
\* by the email as typed
Login ==
    /\ handled < MaxHandled
    /\ handled' = handled + 1
    /\ \E email \in TypedEmails, password \in Passwords :
        LET user == IF variant = "part_001"
                    THEN signInWithPassword(email, password)
                    ELSE signInWithPassword(trim(email), password)
            admin == findAdmin(admin_users, email)
            body == [email |-> email, password |-> password, user |-> user]
        IN  IF variant # "part_001" /\ email = <<>>
            THEN resp' = Response("login", 400, <<>>, [body EXCEPT !.user = NoUser], <<>>)
            ELSE IF user = NoUser
            THEN resp' = Response("login", 401, <<>>, body, <<>>)
            ELSE IF admin = NoAdmin
            THEN resp' = Response("login", 403, <<>>, body, <<>>)
            ELSE resp' = Response("login", 200, <<>>, body,
                                  [access_token |-> user, user |-> admin])
    /\ UNCHANGED <<variant, boot, inflight, kvProjects, admin_users, admin_requests, authUsers, now,
                   createdIds, deletedIds>>
    /\ UNCHANGED clientVars

-----------------------------------------------------------------------------
(* Server: initializeData, called without await when the module loads; each *)
(* await of its body is a point where a request handler can run             *)

\* the first statement of initializeData that touches the modelled keys
BootStart(adminsAtStart, handledAtStart) ==
    [pc |-> IF variant = "part_002" THEN "getProjects" ELSE "getAdminUsers",
     usersKey |-> boot.usersKey,
     adminsAtStart |-> adminsAtStart, handledAtStart |-> handledAtStart]

\* a fresh deployment: nothing is stored and no account exists
InitBoot ==
    /\ variant \in Variants
    /\ kvProjects = <<>>
    /\ admin_users = <<>>
    /\ admin_requests = <<>>
    /\ authUsers = {}
    /\ boot = [pc |-> IF variant = "part_002" THEN "getProjects" ELSE "getAdminUsers",
               usersKey |-> FALSE, adminsAtStart |-> 0, handledAtStart |-> 0]
    /\ inflight = NoInflight
    /\ now = 0
    /\ resp = [op |-> "none", status |-> 0, id |-> <<>>, body |-> <<>>, result |-> <<>>]
    /\ createdIds = {}
    /\ deletedIds = {}
    /\ handled = 0
    /\ ClientIdle

\* what no statement of initializeData changes
BootFrame ==
    UNCHANGED <<variant, inflight, resp, createdIds, deletedIds, handled>> /\ UNCHANGED clientVars

\* const adminUsers = await kv.get("admin_users"); if (!adminUsers) ...
\* the key is absent when neither initializeData nor a handler has written it
BootGetAdminUsers ==
    /\ boot.pc = "getAdminUsers"
    /\ boot' = [boot EXCEPT !.pc =
                    IF ~boot.usersKey /\ admin_users = <<>> THEN "setAdminUsers"
                    ELSE IF variant = "index.tsx" THEN "readAdminUsers" ELSE "done"]
    /\ UNCHANGED <<kvProjects, admin_users, admin_requests, authUsers, now>>
    /\ BootFrame

\* await kv.set("admin_users", [])
BootSetAdminUsers ==
    /\ boot.pc = "setAdminUsers"
    /\ admin_users' = <<>>
    /\ boot' = [boot EXCEPT !.pc = "setAdminRequests", !.usersKey = TRUE]
    /\ UNCHANGED <<kvProjects, admin_requests, authUsers, now>>
    /\ BootFrame

\* await kv.set("admin_requests", [])
BootSetAdminRequests ==
    /\ boot.pc = "setAdminRequests"
    /\ admin_requests' = <<>>
    /\ boot' = [boot EXCEPT !.pc = IF variant = "index.tsx" THEN "readAdminUsers" ELSE "done"]
    /\ UNCHANGED <<kvProjects, admin_users, authUsers, now>>
    /\ BootFrame

\* const currentAdminUsers = await kv.get("admin_users") || [];
\* if (currentAdminUsers.length === 0) ...   (index.tsx)
BootReadAdminUsers ==
    /\ boot.pc = "readAdminUsers"
    /\ boot' = [boot EXCEPT !.pc = IF Len(admin_users) = 0 THEN "createUser" ELSE "done"]
    /\ UNCHANGED <<kvProjects, admin_users, admin_requests, authUsers, now>>
    /\ BootFrame

\* await supabase.auth.admin.createUser(admin@glu.nl); an error is logged only
BootCreateUser ==
    /\ boot.pc = "createUser"
    /\ authUsers' = authUsers \cup {InitialAdminEmail}
    /\ boot' = [boot EXCEPT !.pc = "seedAdmin"]
    /\ UNCHANGED <<kvProjects, admin_users, admin_requests, now>>
    /\ BootFrame

\* await kv.set("admin_users", [initialAdmin])
BootSeedAdmin ==
    /\ boot.pc = "seedAdmin"
    /\ \E t \in ClockAfter(now) :
        /\ admin_users' = <<[initialAdmin EXCEPT !.approvedAt = toISOString(t)]>>
        /\ now' = t
    /\ boot' = [boot EXCEPT !.pc = "done", !.usersKey = TRUE]
    /\ UNCHANGED <<kvProjects, admin_requests, authUsers>>
    /\ BootFrame

\* const existingProjects = await kv.getByPrefix("project_");
\* if (!existingProjects || existingProjects.length === 0) ...   (part_002)
BootGetProjects ==
    /\ boot.pc = "getProjects"
    /\ boot' = [boot EXCEPT !.pc = IF kvProjects = <<>> THEN "setSample1" ELSE "done"]
    /\ UNCHANGED <<kvProjects, admin_users, admin_requests, authUsers, now>>
    /\ BootFrame

\* for (const project of sampleProjects) await kv.set(project.id, project)
BootSetSample ==
    /\ boot.pc \in {"setSample1", "setSample2"}
    /\ LET k == IF boot.pc = "setSample1" THEN DemoKey1 ELSE DemoKey2
       IN  kvProjects' = Set(kvProjects, k, sampleProjects[k])
    /\ boot' = [boot EXCEPT !.pc = IF boot.pc = "setSample1" THEN "setSample2" ELSE "done"]
    /\ UNCHANGED <<admin_users, admin_requests, authUsers, now>>
    /\ BootFrame

\* the server starts again on the same store and calls initializeData anew
Restart ==
    /\ boot.pc = "done"
    /\ handled < MaxHandled
    /\ handled' = handled + 1
    /\ boot' = BootStart(Len(admin_users), handled')
    /\ resp' = Response("restart", 0, <<>>, <<>>, <<>>)
    /\ UNCHANGED <<variant, inflight, kvProjects, admin_users, admin_requests, authUsers, now,
                   createdIds, deletedIds>>
    /\ UNCHANGED clientVars

-----------------------------------------------------------------------------
(* The project resource API *)

NextProjects ==
    \/ CreateProject
    \/ UpdateProject
    \/ DeleteProject
    \/ ListProjects
    \/ CreateInitialAdmin

SpecProjects == InitServer /\ [][NextProjects]_vars

-----------------------------------------------------------------------------
(* Claims about the project resource API *)

\* the step is the handling of one request by the named handler
Handles(op) == handled' # handled /\ resp'.op = op

\* every key but k holds the record it held
OthersKept(k) ==
    \A j \in (DOMAIN kvProjects) \ {k} : j \in DOMAIN kvProjects' /\ kvProjects'[j] = kvProjects[j]

\* the record under k differs from the previous one in updatedAt and the
\* fields of the request body at most
FrameKept(k, body) ==
    /\ DOMAIN kvProjects' = DOMAIN kvProjects
    /\ OthersKept(k)
    /\ \A f \in (DOMAIN kvProjects[k]) \cup (DOMAIN kvProjects'[k]) :
            f \notin (DOMAIN body) \cup {"updatedAt"}
            => /\ f \in DOMAIN kvProjects[k]
               /\ f \in DOMAIN kvProjects'[k]
               /\ kvProjects'[k][f] = kvProjects[k][f]

C6_DeleteContract ==
    [][/\ (Handles("delete") /\ resp'.status # 401) =>
            IF resp'.id \notin DOMAIN kvProjects
            THEN resp'.status = 404 /\ kvProjects' = kvProjects
            ELSE /\ resp'.status = 200
                 /\ resp'.id \notin DOMAIN kvProjects'
                 /\ OthersKept(resp'.id)
       /\ (Handles("list") /\ resp'.status = 200) =>
            /\ deletedIds \cap DOMAIN kvProjects' = {}
            /\ \A i \in 1..Len(resp'.result) :
                    \E k \in DOMAIN kvProjects' : resp'.result[i] = kvProjects'[k]]_vars

\* C7: for every request body, the record a create returns has a non-empty id
\* that no earlier create returned, and its createdAt equals its updatedAt.
C7_CreateContract ==
    [][Handles("create") =>
        /\ resp'.result.id # sEmpty
        /\ resp'.result.id \notin createdIds
        /\ resp'.result.createdAt = resp'.result.updatedAt]_vars

\* C8: a successful update, whatever its body, keeps the record's id and
\* createdAt and leaves an updatedAt greater than the one before.
C8_UpdateImmutable ==
    [][(Handles("update") /\ resp'.status = 200) =>
        /\ kvProjects'[resp'.id].id = kvProjects[resp'.id].id
        /\ kvProjects'[resp'.id].createdAt = kvProjects[resp'.id].createdAt
        /\ getTime(kvProjects'[resp'.id].updatedAt)
                > getTime(kvProjects[resp'.id].updatedAt)]_vars

-----------------------------------------------------------------------------
(* The administrator request API *)

NextAdmin ==
    \/ SubmitRequest
    \/ ApproveRequest
    \/ ListRequests
    \/ Login
    \/ ForceCreate
    \/ CreateInitialAdmin

SpecAdmin == InitServer /\ [][NextAdmin]_vars

-----------------------------------------------------------------------------
(* Claims about the administrator request API *)

\* no two entries of the list carry the same email
NoDuplicateEmail(adminUsers) ==
    \A i, j \in 1..Len(adminUsers) : adminUsers[i].email = adminUsers[j].email => i = j

\* C9: a second successful approve of a request id that an earlier call has
\* approved does not leave two admin_users entries with the same email.
C9_ApproveTwiceNoDuplicate ==
    [][(/\ Handles("approve")
        /\ resp'.status = 200
        /\ admin_requests[findIndex(admin_requests, resp'.id)].approved)
       => NoDuplicateEmail(admin_users')]_vars

\* C10: in every step, every request stays in admin_requests at its place; a
\* request that is approved stays approved and keeps its approvedAt and
\* approvedBy, so that approved goes from false to true at most once.
C10_RequestLifecycle ==
    [][\A i \in 1..Len(admin_requests) :
        /\ i <= Len(admin_requests')
        /\ admin_requests'[i].id = admin_requests[i].id
        /\ admin_requests[i].approved =>
            /\ admin_requests'[i].approved
            /\ admin_requests'[i].approvedAt = admin_requests[i].approvedAt
            /\ admin_requests'[i].approvedBy = admin_requests[i].approvedBy]_vars

\* the approved admin_users entry the caller's token resolves to, if any
Caller == verifyAdmin(resp'.body.token)

\* C11: in every variant with the endpoint, a list-requests call by a caller
\* whose token resolves to an approved admin answers with exactly the
\* admin_requests entries that are not approved; a call by any other caller
\* fails and returns no request data.
C11_ListPending ==
    [][Handles("list-requests") =>
        IF Caller # NoAdmin
        THEN /\ resp'.status = 200
             /\ \A req \in Range(resp'.result) :
                    req \in Range(admin_requests) /\ ~req.approved
             /\ \A req \in Range(admin_requests) :
                    ~req.approved => req \in Range(resp'.result)
        ELSE resp'.status # 200 /\ resp'.result = <<>>]_vars

\* the places of the requests with the id the call names
Named == {i \in 1..Len(admin_requests) : admin_requests[i].id = resp'.id}

\* request i is approved by the caller and an AdminUser entry made of it is appended
ApprovedAt(i) ==
    LET before == admin_requests[i]
        after == admin_requests'[i]
    IN  /\ resp'.status = 200
        /\ Len(admin_requests') = Len(admin_requests)
        /\ \A j \in 1..Len(admin_requests) : j # i => admin_requests'[j] = admin_requests[j]
        /\ DOMAIN after = (DOMAIN before) \cup {"approved", "approvedAt", "approvedBy"}
        /\ \A f \in {"id", "email", "name", "createdAt"} : after[f] = before[f]
        /\ after.approved
        /\ getTime(after.approvedAt) \in ClockAfter(now)
        /\ after.approvedBy = Caller.email
        /\ admin_users' = Append(admin_users,
                [email |-> before.email, name |-> before.name, approved |-> TRUE,
                 approvedAt |-> after.approvedAt, approvedBy |-> Caller.email])

\* C12: in the variants whose approve handler resolves the caller (index.tsx,
\* part_001), an approve by an approved admin of an id that no request has
\* answers 404 and changes neither admin_requests nor admin_users; otherwise
\* a request with that id gets approved=true, approvedAt, approvedBy = the
\* caller's email, a matching AdminUser entry is appended, and every other
\* request is unchanged.
C12_ApproveContract ==
    [][(Handles("approve") /\ variant \in AuthVariants /\ Caller # NoAdmin) =>
        IF Named = {}
        THEN /\ resp'.status = 404
             /\ admin_requests' = admin_requests
             /\ admin_users' = admin_users
        ELSE \E i \in Named : ApprovedAt(i)]_vars

\* the second of two requests was approved by the seeded admin; the first is
\* still pending
C12_Witness ==
    /\ resp.op = "approve"
    /\ resp.status = 200
    /\ Len(admin_requests) = 2
    /\ ~admin_requests[1].approved
    /\ admin_requests[2].approved
    /\ admin_requests[2].id = resp.id
    /\ admin_requests[2].approvedBy = resp.body.token
    /\ admin_users[Len(admin_users)].email = admin_requests[2].email

\* C13: a login with both fields given answers 401 when the provider
\* authenticates nobody, 403 when the authenticated identity's email is not an
\* approved admin_users entry, and otherwise 200 with that admin and an
\* access token, however the email was typed.
C13_LoginOutcome ==
    [][(Handles("login") /\ resp'.body.email # <<>>) =>
        LET user == resp'.body.user
            approvedAdmin == \E i \in 1..Len(admin_users) :
                                admin_users[i].email = user /\ admin_users[i].approved
        IN  IF user = NoUser THEN resp'.status = 401
            ELSE IF ~approvedAdmin THEN resp'.status = 403
            ELSE /\ resp'.status = 200
                 /\ resp'.result.user.email = user
                 /\ resp'.result.access_token = user]_vars

\* C14: a submit whose account creation the provider rejects fails and leaves
\* admin_requests unchanged; one whose account is created appends exactly one
\* entry with approved=false, no password and an id that no stored entry
\* has, and leaves the stored entries unchanged.
C14_SubmitContract ==
    [][Handles("request") =>
        IF authUsers' = authUsers
        THEN resp'.status # 200 /\ admin_requests' = admin_requests
        ELSE /\ resp'.status = 200
             /\ Len(admin_requests') = Len(admin_requests) + 1
             /\ SubSeq(admin_requests', 1, Len(admin_requests)) = admin_requests
             /\ LET entry == admin_requests'[Len(admin_requests')]
                IN  /\ ~entry.approved
                    /\ DOMAIN entry = {"id", "email", "name", "createdAt", "approved"}
                    /\ entry.email = resp'.body.email
                    /\ \A i \in 1..Len(admin_requests) : admin_requests[i].id # entry.id]_vars

\* C15: every entry of admin_users is approved; admin_users changes only by a
\* successful approve called by an approved admin, which appends one entry
\* with the email of an approved request.  (The entry seeded at bootstrap is
\* in the initial state.)
C15_AdminProvenance ==
    [][/\ \A i \in 1..Len(admin_users') : admin_users'[i].approved
       /\ admin_users' # admin_users =>
            /\ Handles("approve")
            /\ resp'.status = 200
            /\ Caller # NoAdmin
            /\ Len(admin_users') = Len(admin_users) + 1
            /\ SubSeq(admin_users', 1, Len(admin_users)) = admin_users
            /\ \E j \in 1..Len(admin_requests') :
                    /\ admin_requests'[j].approved
                    /\ admin_requests'[j].email = admin_users'[Len(admin_users')].email]_vars

-----------------------------------------------------------------------------
(* Bootstrap running beside the administrator endpoints; each handler is *)
(* taken as one step                                                      *)

NextBoot ==
    \/ BootGetAdminUsers
    \/ BootSetAdminUsers
    \/ BootSetAdminRequests
    \/ BootReadAdminUsers
    \/ BootCreateUser
    \/ BootSeedAdmin
    \/ BootGetProjects
    \/ BootSetSample
    \/ Restart
    \/ ForceCreate
    \/ SubmitRequest
    \/ ApproveRequest
    \/ CreateInitialAdmin

SpecBoot == InitBoot /\ [][NextBoot]_vars

\* C16: in every step, every entry of admin_users stays in admin_users at its
\* place with its value: none is removed or overwritten.
C16_AdminUsersAppendOnly ==
    [][\A i \in 1..Len(admin_users) :
        i <= Len(admin_users') /\ admin_users'[i] = admin_users[i]]_vars

\* C17: when a run of initializeData that no request interrupted reaches its
\* end, a store that held no admin at its start holds exactly one entry, the
\* seeded administrator (approved, approvedBy 'system'), and a store that
\* held admins holds as many as before.
C17_BootstrapSeedsOne ==
    [][(boot.pc # "done" /\ boot'.pc = "done" /\ handled = boot.handledAtStart) =>
        IF boot.adminsAtStart = 0
        THEN /\ Len(admin_users') = 1
             /\ admin_users'[1].email = InitialAdminEmail
             /\ admin_users'[1].approved
             /\ admin_users'[1].approvedBy = "system"
        ELSE Len(admin_users') = boot.adminsAtStart]_vars

-----------------------------------------------------------------------------
(* Claims about the list endpoint *)

\* C18: in a successful list response, of any two projects whose createdAt
\* are dates the one returned earlier has the later or the same createdAt;
\* and a stored project whose createdAt is later than that of every other
\* stored project is the first element of an unfiltered list response.
C18_ListNewestFirst ==
    [][(Handles("list") /\ resp'.status = 200) =>
        /\ \A i, j \in 1..Len(resp'.result) :
            (/\ i < j
             /\ getTime(resp'.result[i].createdAt) # NaN
             /\ getTime(resp'.result[j].createdAt) # NaN)
            => getTime(resp'.result[i].createdAt) >= getTime(resp'.result[j].createdAt)
        /\ resp'.body = NoQuery =>
            \A k \in DOMAIN kvProjects' :
                (/\ getTime(kvProjects'[k].createdAt) # NaN
                 /\ \A j \in (DOMAIN kvProjects') \ {k} :
                        /\ getTime(kvProjects'[j].createdAt) # NaN
                        /\ getTime(kvProjects'[j].createdAt)
                                < getTime(kvProjects'[k].createdAt))
                => /\ resp'.result # <<>>
                   /\ resp'.result[1] = kvProjects'[k]]_vars

\* the query parameter that stands for a client criterion: the inactive
\* choice 'all' is no parameter
QueryOf(choice) == IF choice = sAll THEN sEmpty ELSE choice

\* the list endpoint's filters applied to the client's unfiltered collection
\* under the client's criteria
ServerView ==
    ServerFilter(projects, QueryOf(selectedCategory), QueryOf(selectedSkill),
                 QueryOf(selectedUrgency), searchTerm)

\* C19: for every stored collection and all criteria for which the client's
\* filterProjects returns, the list endpoint's filters return too, and with
\* the same set of projects.
C19_ServerFilterAsClient ==
    filterStatus = "done" =>
        /\ ServerView.ok
        /\ Range(ServerView.list) = Range(filteredProjects)

\* C20: in the sweep variant, when a list request has been handled no stored
\* project has a deadline earlier than the time of the sweep and none is
\* returned, and every project with no deadline or a deadline not in the past
\* is stored as it was.
C20_SweepRemovesExpired ==
    [][(Handles("list") /\ variant = "part_002") =>
        /\ \A k \in DOMAIN kvProjects' : ~Expired(kvProjects'[k], now')
        /\ \A i \in 1..Len(resp'.result) : ~Expired(resp'.result[i], now')
        /\ \A k \in DOMAIN kvProjects :
            ~Expired(kvProjects[k], now')
            => k \in DOMAIN kvProjects' /\ kvProjects'[k] = kvProjects[k]]_vars

-----------------------------------------------------------------------------
(* The administrator-protected endpoints beside the public ones *)

NextAuth ==
    \/ CreateProject
    \/ UpdateProject
    \/ DeleteProject
    \/ SubmitRequest
    \/ ApproveRequest
    \/ ListRequests

\* a deployment of a variant whose update and delete handlers call verifyAdmin
InitAuth == InitServer /\ variant \in AuthVariants

SpecAuth == InitAuth /\ [][NextAuth]_vars

\* the bearer token of the request just handled
TokenOf(response) ==
    IF "token" \in DOMAIN response THEN response.token ELSE response.body.token

\* the token is the session of an account of the provider
ValidToken(accessToken) == accessToken # NoToken /\ accessToken \in authUsers

\* the token's account has an approved admin_users entry
ApprovedAdmin(accessToken) ==
    /\ ValidToken(accessToken)
    /\ \E i \in 1..Len(admin_users) :
            admin_users[i].email = accessToken /\ admin_users[i].approved

\* the step handles a request to an endpoint that index.tsx and part_001
\* guard with verifyAdmin
HandlesProtected ==
    /\ variant \in AuthVariants
    /\ \/ Handles("update")
       \/ Handles("delete")
       \/ Handles("list-requests")
       \/ Handles("approve")

\* C21: in index.tsx and part_001, an update, delete, list-requests or
\* approve request whose bearer token is missing, invalid, or is not that of an
\* approved admin is rejected, and projects, admin_requests and admin_users
\* are as before.
C21_RejectedLeavesStore ==
    [][(HandlesProtected /\ ~ApprovedAdmin(TokenOf(resp'))) =>
        /\ resp'.status \notin {0, 200}
        /\ resp'.result = <<>>
        /\ kvProjects' = kvProjects
        /\ admin_requests' = admin_requests
        /\ admin_users' = admin_users]_vars

\* a delete of a stored project with the token of an account that has a
\* pending request only was rejected, and the project is still stored
C21_Witness ==
    /\ resp.op = "delete"
    /\ resp.status = 401
    /\ ValidToken(resp.token)
    /\ ~ApprovedAdmin(resp.token)
    /\ resp.id \in DOMAIN kvProjects
    /\ \E i \in 1..Len(admin_requests) :
            admin_requests[i].email = resp.token /\ ~admin_requests[i].approved

\* C22: in the variants that resolve the caller, a protected endpoint answers
\* 401 to a missing or invalid bearer token and 403 to a valid token whose
\* account is not an approved admin.
C22_ErrorTaxonomy ==
    [][(HandlesProtected /\ ~ApprovedAdmin(TokenOf(resp'))) =>
        IF ValidToken(TokenOf(resp')) THEN resp'.status = 403 ELSE resp'.status = 401]_vars

-----------------------------------------------------------------------------
(* Client: ProjectsPage, its delete and save handlers with the server: a    *)
(* request in flight is handled by the server step for its method, id,      *)
(* token and body, and answered by the response of that step                *)

\* the bearer token ProjectsPage sends is publicAnonKey, the session of no
\* account (part_002 does not read the header)
PageToken == IF variant \in AuthVariants THEN BadToken ELSE NoToken

\* the body of the save request: the edit form with the title edited (its
\* other fields carry the values the page holds for the record)
PageEditBody == [title |-> sReact]

\* the stores the page is opened on: the variant's initial store and one
\* project created since from one of these bodies
PageBodyLists == {<<bodyReactTitle>>, <<bodyReactDescription>>}

\* the key-value store holding the records of list under their ids, beside store
StoreWith(store, list) ==
    [k \in (DOMAIN store) \cup {list[i].id : i \in 1..Len(list)} |->
        IF k \in DOMAIN store THEN store[k]
        ELSE list[CHOOSE i \in 1..Len(list) : list[i].id = k]]

\* the records of the store in one of the orders getByPrefix can return
Listing(store, order) == [i \in 1..Len(order) |-> store[order[i]]]

\* ProjectsPage is mounted and its first fetchData has finished
InitPage ==
    /\ variant \in Variants
    /\ \E bodies \in PageBodyLists :
        /\ kvProjects = StoreWith(IF variant = "part_002" THEN sampleProjects ELSE <<>>,
                                  FetchedProjects(bodies))
        /\ createdIds = {ProjectKey(t, "a") : t \in 0..(Len(bodies) - 1)}
        /\ now = Len(bodies) - 1
    /\ projects = SortNewestFirst(Listing(kvProjects, SomeOrder(DOMAIN kvProjects)))
    /\ filteredProjects = projects
    /\ searchTerm = sEmpty
    /\ selectedCategory = sAll
    /\ selectedSkill = sAll
    /\ selectedUrgency = sAll
    /\ filterStatus = "done"
    /\ ViewIdle
    /\ admin_users = IF variant = "index.tsx" THEN <<initialAdmin>> ELSE <<>>
    /\ admin_requests = <<>>
    /\ authUsers = IF variant = "index.tsx" THEN {InitialAdminEmail} ELSE {}
    /\ boot = BootDone(variant # "part_002")
    /\ inflight = NoInflight
    /\ resp = [op |-> "none", status |-> 0, id |-> <<>>, body |-> <<>>, result |-> <<>>]
    /\ deletedIds = {}
    /\ handled = 0

\* what no step of ProjectsPage changes
PageFrame ==
    /\ UNCHANGED <<searchTerm, selectedCategory, selectedSkill, selectedUrgency, form, app, cms>>
    /\ UNCHANGED serverVars

\* the delete confirmation of a listed project: handleDeleteProject sends
\* DELETE /projects/${projectToDelete.id}
PageDeleteClick ==
    /\ page.pc = "idle"
    /\ \E i \in 1..Len(projects) :
        page' = [PageIdle EXCEPT !.pc = "deleteSent", !.op = "delete",
                                 !.target = projects[i].id, !.sentAt = handled]
    /\ UNCHANGED <<projects, filteredProjects, filterStatus>>
    /\ PageFrame

\* the save confirmation of the edit dialog: handleSaveProject sends
\* PUT /projects/${editingProject.id} with editForm
PageSaveClick ==
    /\ page.pc = "idle"
    /\ \E i \in 1..Len(projects) :
        page' = [PageIdle EXCEPT !.pc = "saveSent", !.op = "save",
                                 !.target = projects[i].id, !.sentAt = handled]
    /\ UNCHANGED <<projects, filteredProjects, filterStatus>>
    /\ PageFrame

\* the response just returned answers the request the page has in flight
PageAnswered ==
    /\ handled > page.sentAt
    /\ CASE page.pc = "deleteSent" ->
                resp.op = "delete" /\ resp.id = page.target /\ resp.token = PageToken
         [] page.pc = "saveSent" ->
                /\ resp.op = "update" /\ resp.id = page.target /\ resp.token = PageToken
                /\ resp.body = PageEditBody
         [] page.pc = "fetchProjects" -> resp.op = "list" /\ resp.body = NoQuery
         [] OTHER -> FALSE

\* the await of the DELETE or PUT returns: if (!response.ok) toast.error and
\* return; otherwise toast.success and fetchData() begins with setLoading(true)
PageMutationResponse ==
    /\ page.pc \in {"deleteSent", "saveSent"}
    /\ PageAnswered
    /\ page' = IF resp.status = 200
               THEN [page EXCEPT !.pc = "fetchProjects", !.answered = TRUE,
                                 !.toast = "success", !.loading = TRUE, !.sentAt = handled]
               ELSE [page EXCEPT !.pc = "idle", !.toast = "error"]
    /\ UNCHANGED <<projects, filteredProjects, filterStatus>>
    /\ PageFrame

\* the fetch of the DELETE or PUT rejects: catch, toast.error
PageMutationThrows ==
    /\ page.pc \in {"deleteSent", "saveSent"}
    /\ page' = [page EXCEPT !.pc = "idle", !.toast = "error"]
    /\ UNCHANGED <<projects, filteredProjects, filterStatus>>
    /\ PageFrame

\* ProjectsFromResponse leaving the list the page holds
ProjectsFromResponse_Keep(response) == projects

\* Array.isArray(projectsData) ? projectsData : []  (an error response
\* carries an object)
ProjectsFromResponse(response) ==
    IF response.status = 200 THEN response.result ELSE <<>>

\* fetchData: the await of GET /projects returns; setProjects, and the effect
\* re-runs filterProjects on the new list
PageProjectsResponse ==
    /\ page.pc = "fetchProjects"
    /\ PageAnswered
    /\ projects' = ProjectsFromResponse(resp)
    /\ LET r == FilterProjects(projects', searchTerm, selectedCategory,
                               selectedSkill, selectedUrgency)
       IN  /\ filterStatus' = IF r.ok THEN "done" ELSE "error"
           /\ filteredProjects' = IF r.ok THEN r.list ELSE filteredProjects
    /\ page' = [page EXCEPT !.pc = "fetchCategories", !.refetched = TRUE]
    /\ PageFrame

\* fetchData: the await of GET /categories, then of GET /skills, returns (the
\* two lists are not part of the model); finally setLoading(false)
PageStaticResponse ==
    /\ page.pc \in {"fetchCategories", "fetchSkills"}
    /\ page' = IF page.pc = "fetchCategories"
               THEN [page EXCEPT !.pc = "fetchSkills"]
               ELSE [page EXCEPT !.pc = "idle", !.loading = FALSE]
    /\ UNCHANGED <<projects, filteredProjects, filterStatus>>
    /\ PageFrame

\* fetchData: one of its fetches rejects: catch, finally setLoading(false)
PageFetchThrows ==
    /\ page.pc \in {"fetchProjects", "fetchCategories", "fetchSkills"}
    /\ page' = [page EXCEPT !.pc = "idle", !.loading = FALSE]
    /\ UNCHANGED <<projects, filteredProjects, filterStatus>>
    /\ PageFrame

\* the server handles the request the page has in flight (the page is the
\* only client)
PageServes ==
    /\ page.pc \in {"deleteSent", "saveSent", "fetchProjects"}
    /\ \/ UpdateProject
       \/ DeleteProject
       \/ ListProjects
    /\ PageAnswered'

NextPage ==
    \/ PageDeleteClick
    \/ PageSaveClick
    \/ PageMutationResponse
    \/ PageMutationThrows
    \/ PageProjectsResponse
    \/ PageStaticResponse
    \/ PageFetchThrows
    \/ PageServes

SpecPage == InitPage /\ [][NextPage]_vars

\* the records the store holds
Stored(store) == {store[k] : k \in DOMAIN store}

\* the handler of a delete or save returns
PageFinishes == page.pc # "idle" /\ page'.pc = "idle"

-----------------------------------------------------------------------------
(* Client: AddProjectPage, the form and its submit handler; the server's    *)
(* answer to a create request is an input: success, an error, or no answer  *)

MaxSent == 2            \* create requests sent from one form

\* the fields handleSubmit and the submit button test
RequiredFields == {"title", "description", "category", "studentName", "contactInfo"}

\* what the user can type into a required field: nothing, or a text
FieldValues == {"", "x"}

\* useState({ title: '', description: '', category: '', skills: [], urgency:
\* 'normal', studentName: '', contactInfo: '' })
EmptyFormData ==
    [title |-> "", description |-> "", category |-> "", skills |-> <<>>,
     urgency |-> "normal", studentName |-> "", contactInfo |-> ""]

\* AddProjectPage after mount and fetchData
FormMounted ==
    [pc |-> "mounted", formData |-> EmptyFormData, submitting |-> FALSE,
     inFlight |-> 0, sent |-> 0, body |-> EmptyFormData, origin |-> "none"]

InitForm ==
    /\ ListIdle
    /\ page = PageIdle
    /\ form = FormMounted
    /\ app = AppIdle
    /\ cms = CmsIdle
    /\ ServerIdle

\* what no step of AddProjectPage changes
FormFrame ==
    /\ UNCHANGED <<projects, filteredProjects, searchTerm, selectedCategory, selectedSkill,
                   selectedUrgency, filterStatus, page, app, cms>>
    /\ UNCHANGED serverVars

\* !value of a string: the empty string is falsy, every other string truthy
Falsy(value) == value = ""

\* SubmitDisabled without the submitting flag
SubmitDisabled_FieldsOnly ==
    \/ Falsy(form.formData.title)
    \/ Falsy(form.formData.description)
    \/ Falsy(form.formData.category)
    \/ Falsy(form.formData.studentName)
    \/ Falsy(form.formData.contactInfo)

\* disabled={submitting || !formData.title || !formData.description ||
\*           !formData.category || !formData.studentName || !formData.contactInfo}
SubmitDisabled ==
    \/ form.submitting
    \/ Falsy(form.formData.title)
    \/ Falsy(form.formData.description)
    \/ Falsy(form.formData.category)
    \/ Falsy(form.formData.studentName)
    \/ Falsy(form.formData.contactInfo)

\* onChange of an input: setFormData({ ...formData, [field]: value })
FormSetField ==
    /\ form.pc = "mounted"
    /\ \E f \in RequiredFields, v \in FieldValues :
        /\ form.formData[f] # v
        /\ form' = [form EXCEPT !.formData[f] = v]
    /\ FormFrame

\* handleSubmit up to its await: return when a required field is falsy,
\* otherwise setSubmitting(true) and POST /projects with formData
handleSubmit(origin) ==
    IF \/ Falsy(form.formData.title)
       \/ Falsy(form.formData.description)
       \/ Falsy(form.formData.category)
       \/ Falsy(form.formData.studentName)
       \/ Falsy(form.formData.contactInfo)
    THEN UNCHANGED form
    ELSE /\ form.sent < MaxSent
         /\ form' = [form EXCEPT !.submitting = TRUE, !.inFlight = @ + 1, !.sent = @ + 1,
                                 !.body = form.formData, !.origin = origin]

\* a click on the submit button, which a disabled button does not take
FormClickSubmit ==
    /\ form.pc = "mounted"
    /\ ~SubmitDisabled
    /\ handleSubmit("button")
    /\ FormFrame

\* a submit event of the form that does not come from the button
\* (form.requestSubmit(), a dispatched event)
FormSubmitEvent ==
    /\ form.pc = "mounted"
    /\ handleSubmit("event")
    /\ FormFrame

\* the await of the POST returns or rejects: onSuccess() on response.ok, which
\* leaves the page; finally setSubmitting(false)
FormResponse ==
    /\ form.pc = "mounted"
    /\ form.inFlight > 0
    /\ \E outcome \in {"ok", "error", "throw"} :
        form' = [form EXCEPT !.submitting = FALSE, !.inFlight = @ - 1,
                             !.pc = IF outcome = "ok" THEN "left" ELSE @]
    /\ FormFrame

NextForm ==
    \/ FormSetField
    \/ FormClickSubmit
    \/ FormSubmitEvent
    \/ FormResponse

SpecForm == InitForm /\ [][NextForm]_vars

\* C24: a create request is sent only from a form whose title, description,
\* category, studentName and contactInfo are all non-empty, and carries them;
\* while one of them is empty the submit button is disabled and a call of
\* handleSubmit sends nothing; while submitting is true the button is
\* disabled and no create request is started from it.
C24_CreateOnlyWhenValid ==
    [][/\ form'.sent > form.sent =>
            /\ \A f \in RequiredFields : form.formData[f] # "" /\ form'.body[f] # ""
            /\ form'.body = form.formData
       /\ (\E f \in RequiredFields : form.formData[f] = "") =>
            /\ SubmitDisabled
            /\ form'.sent = form.sent
       /\ form.submitting =>
            /\ SubmitDisabled
            /\ form'.sent > form.sent => form'.origin # "button"]_vars

\* a create request sent from the button is in flight, and the form's
\* required fields are all filled
C24_Witness ==
    /\ form.pc = "mounted"
    /\ form.submitting
    /\ form.inFlight = 1
    /\ form.origin = "button"
    /\ \A f \in RequiredFields : form.body[f] # ""
    /\ SubmitDisabled

-----------------------------------------------------------------------------
(* Client: App, the preferences in component state and in localStorage.     *)
(* A setState call takes effect at the next render; after a render the      *)
(* effects whose dependency changed run, in the order of the code           *)

\* localStorage.getItem of a key that was never set
NoItem == "null"

\* the contents localStorage can have when the app starts: what earlier
\* sessions of the app have written, or nothing
SavedStorages ==
    [access : {NoItem, "true"}, theme : {NoItem, "dark", "light"}, language : {NoItem, "nl", "en"}]

\* the codes a visitor can enter
AccessCodes == {"694201", "000000"}

\* useState(false), useState(false), useState('nl')
InitialState == [hasAccess |-> FALSE, isDark |-> FALSE, language |-> "nl"]

\* App after its first render: the three effects of the mount are due.
\* state: the values of the last render; next: the values the setState
\* calls since then ask for; saved: localStorage when the app started;
\* touched: a toggle or an access code was handled
AppMounted(storage) ==
    [pc |-> "mounted", state |-> InitialState, next |-> InitialState,
     effects |-> <<"load", "theme", "language">>,
     storage |-> storage, saved |-> storage, touched |-> FALSE]

InitApp ==
    /\ ListIdle
    /\ page = PageIdle
    /\ form = FormIdle
    /\ \E storage \in SavedStorages : app = AppMounted(storage)
    /\ cms = CmsIdle
    /\ ServerIdle

\* what no step of App changes
AppFrame ==
    /\ UNCHANGED <<projects, filteredProjects, searchTerm, selectedCategory, selectedSkill,
                   selectedUrgency, filterStatus, page, form, cms>>
    /\ UNCHANGED serverVars

\* ThemeItem writing 'light' whatever the theme
ThemeItem_Light(isDark) == "light"

\* isDark ? 'dark' : 'light'
ThemeItem(isDark) == IF isDark THEN "dark" ELSE "light"

\* the load effect: if (savedAccess === 'true') setHasAccess(true);
\* if (savedTheme === 'dark') setIsDark(true);
\* if (savedLanguage) setLanguage(savedLanguage)
LoadPreferences(a) ==
    [a EXCEPT !.next =
        [hasAccess |-> IF a.storage.access = "true" THEN TRUE ELSE a.next.hasAccess,
         isDark |-> IF a.storage.theme = "dark" THEN TRUE ELSE a.next.isDark,
         language |-> IF a.storage.language # NoItem THEN a.storage.language
                      ELSE a.next.language]]

\* the effect that is due first runs, with the values of the last render
AppRunEffect ==
    /\ app.pc = "mounted"
    /\ app.effects # <<>>
    /\ LET effect == Head(app.effects)
           ran == CASE effect = "load" -> LoadPreferences(app)
                    [] effect = "theme" ->
                        [app EXCEPT !.storage.theme = ThemeItem(app.state.isDark)]
                    [] effect = "language" ->
                        [app EXCEPT !.storage.language = app.state.language]
       IN  app' = [ran EXCEPT !.effects = Tail(app.effects)]
    /\ AppFrame

\* the render that the setState calls have scheduled: the new values become
\* the state, and the effects whose dependency changed are due
AppRender ==
    /\ app.pc = "mounted"
    /\ app.effects = <<>>
    /\ app.next # app.state
    /\ app' = [app EXCEPT
                !.state = app.next,
                !.effects = (IF app.next.isDark # app.state.isDark THEN <<"theme">> ELSE <<>>)
                            \o (IF app.next.language # app.state.language
                                THEN <<"language">> ELSE <<>>)]
    /\ AppFrame

\* toggleTheme = () => setIsDark(!isDark)
toggleTheme ==
    /\ app.pc = "mounted"
    /\ app.effects = <<>>
    /\ app' = [app EXCEPT !.next.isDark = ~app.state.isDark, !.touched = TRUE]
    /\ AppFrame

\* toggleLanguage = () => setLanguage(language === 'nl' ? 'en' : 'nl')
toggleLanguage ==
    /\ app.pc = "mounted"
    /\ app.effects = <<>>
    /\ app' = [app EXCEPT !.next.language = IF app.state.language = "nl" THEN "en" ELSE "nl",
                          !.touched = TRUE]
    /\ AppFrame

\* handleAccessCodeSubmit: if (code === '694201') { setHasAccess(true);
\* localStorage.setItem('glu-access', 'true') }
handleAccessCodeSubmit ==
    /\ app.pc = "mounted"
    /\ app.effects = <<>>
    /\ ~app.state.hasAccess
    /\ \E code \in AccessCodes :
        app' = IF code = "694201"
               THEN [app EXCEPT !.next.hasAccess = TRUE, !.storage.access = "true",
                                !.touched = TRUE]
               ELSE [app EXCEPT !.touched = TRUE]
    /\ AppFrame

NextApp ==
    \/ AppRunEffect
    \/ AppRender
    \/ toggleTheme
    \/ toggleLanguage
    \/ handleAccessCodeSubmit

SpecApp == InitApp /\ [][NextApp]_vars

\* no effect is due and no render is scheduled
AppSettled == app.pc = "mounted" /\ app.effects = <<>> /\ app.next = app.state

\* localStorage holds the values of the component state
PersistedIsCurrent ==
    /\ app.storage.theme = (IF app.state.isDark THEN "dark" ELSE "light")
    /\ app.storage.language = app.state.language
    /\ app.storage.access = "true" <=> app.state.hasAccess

\* C25 as stated: once the startup effects have run, localStorage holds for
\* theme, language and access what it held before startup; during startup no
\* effect overwrites a saved theme, language or access; and after any toggles
\* localStorage holds the current values.
C25_PreferencesRoundTrip ==
    /\ (AppSettled /\ ~app.touched) => app.storage = app.saved
    /\ ~app.touched =>
        \A key \in {"access", "theme", "language"} :
            app.saved[key] # NoItem => app.storage[key] = app.saved[key]
    /\ AppSettled => PersistedIsCurrent

\* C25 amended: once the startup effects and the render they schedule have
\* run to their end, every key for which a value was saved holds that value
\* again (a key with none holds the default 'light' or 'nl', access stays
\* unset), and whenever no effect or render is due, also after any toggles,
\* localStorage holds the current values.
C25_PreferencesSettled ==
    /\ (AppSettled /\ ~app.touched) =>
        /\ app.storage.access = app.saved.access
        /\ app.storage.theme = (IF app.saved.theme = NoItem THEN "light" ELSE app.saved.theme)
        /\ app.storage.language =
                (IF app.saved.language = NoItem THEN "nl" ELSE app.saved.language)
    /\ AppSettled => PersistedIsCurrent

\* the app started on a saved 'dark' theme and language 'en'; the theme was
\* toggled since and 'light' is persisted, the language is still 'en'
C25_Witness ==
    /\ AppSettled
    /\ app.touched
    /\ app.saved.theme = "dark"
    /\ app.saved.language = "en"
    /\ app.storage.theme = "light"
    /\ ~app.state.isDark
    /\ app.storage.language = "en"
    /\ app.state.language = "en"

-----------------------------------------------------------------------------
(* Server: the admin request handlers await by await.  Every await of a     *)
(* handler is a point where another handler can run; inflight keeps, for    *)
(* each handler started, its position and its local variables               *)

MaxInflight == 2        \* handlers started in one behaviour

\* a handler that has just been entered
Handler(op, pc, status, email, id) ==
    [op |-> op, pc |-> pc, status |-> status, email |-> email, id |-> id,
     requests |-> <<>>, users |-> <<>>, overlaps |-> \E h \in DOMAIN inflight : inflight[h].pc # "done"]

\* the handler has returned the response with this status
Done(handler, status) == [handler EXCEPT !.pc = "done", !.status = status]

InitRaceAdmin == InitServer /\ variant = "index.tsx"

\* what no step of an admin request handler changes
RaceAdminFrame == UNCHANGED <<variant, boot, kvProjects, createdIds, deletedIds>> /\ UNCHANGED clientVars

\* POST /admin/request up to its second await: createUser; on an error the
\* handler answers 500
RaceSubmitStart ==
    /\ Len(inflight) < MaxInflight
    /\ handled' = handled + 1
    /\ \E email \in Emails, password \in Passwords :
        IF ~createUserOk(email, password)
        THEN /\ inflight' = Append(inflight, Handler("request", "done", 500, email, <<>>))
             /\ resp' = Response("request", 500, <<>>, [email |-> email], <<>>)
             /\ UNCHANGED authUsers
        ELSE /\ inflight' = Append(inflight, Handler("request", "getRequests", 0, email, <<>>))
             /\ authUsers' = authUsers \cup {email}
             /\ UNCHANGED resp
    /\ UNCHANGED <<admin_requests, admin_users, now>>
    /\ RaceAdminFrame

\* SubmitList keeping the new request only
SubmitList_Drop(adminRequests, request) == <<request>>

\* adminRequests.push(request)
SubmitList(adminRequests, request) == Append(adminRequests, request)

\* const adminRequests = await kv.get("admin_requests") || []; the request is
\* built and pushed onto that copy
RaceSubmitGet ==
    /\ \E h \in DOMAIN inflight, r \in RandomSuffixes :
       \E t \in ClockAfter(now) :
        LET requestId == RequestKey(t, r)
            request == [id |-> requestId, email |-> inflight[h].email, name |-> "name",
                        createdAt |-> toISOString(t), approved |-> FALSE]
        IN  /\ inflight[h].op = "request"
            /\ inflight[h].pc = "getRequests"
            /\ Len(admin_requests) < MaxRequests
            /\ inflight' = [inflight EXCEPT ![h].pc = "setRequests", ![h].id = requestId,
                                            ![h].requests = SubmitList(admin_requests, request)]
            /\ now' = t
    /\ UNCHANGED <<admin_requests, admin_users, authUsers, resp, handled>>
    /\ RaceAdminFrame

\* await kv.set("admin_requests", adminRequests); the handler answers 200
RaceSubmitSet ==
    /\ \E h \in DOMAIN inflight :
        /\ inflight[h].op = "request"
        /\ inflight[h].pc = "setRequests"
        /\ admin_requests' = inflight[h].requests
        /\ inflight' = [inflight EXCEPT ![h] = Done(inflight[h], 200)]
        /\ resp' = Response("request", 200, inflight[h].id, [email |-> inflight[h].email], <<>>)
    /\ UNCHANGED <<admin_users, authUsers, now, handled>>
    /\ RaceAdminFrame

\* PUT /admin/requests/:id/approve up to the await after verifyAdmin
RaceApproveStart ==
    /\ Len(inflight) < MaxInflight
    /\ handled' = handled + 1
    /\ \E accessToken \in Tokens, requestId \in ApproveIds :
        LET admin == verifyAdmin(accessToken)
        IN  IF admin = NoAdmin
            THEN /\ inflight' = Append(inflight, Handler("approve", "done", 401, accessToken, requestId))
                 /\ resp' = Response("approve", 401, requestId, [token |-> accessToken], <<>>)
            ELSE /\ inflight' = Append(inflight,
                        Handler("approve", "getRequests", 0, admin.email, requestId))
                 /\ UNCHANGED resp
    /\ UNCHANGED <<admin_requests, admin_users, authUsers, now>>
    /\ RaceAdminFrame

\* const adminRequests = await kv.get("admin_requests") || []; findIndex; the
\* request of the copy is marked approved
RaceApproveGetRequests ==
    /\ \E h \in DOMAIN inflight :
       \E t \in ClockAfter(now) :
        LET requestIndex == findIndex(admin_requests, inflight[h].id)
        IN  /\ inflight[h].op = "approve"
            /\ inflight[h].pc = "getRequests"
            /\ IF requestIndex = 0
               THEN /\ inflight' = [inflight EXCEPT ![h] = Done(inflight[h], 404)]
                    /\ resp' = Response("approve", 404, inflight[h].id,
                                        [token |-> inflight[h].email], <<>>)
                    /\ UNCHANGED now
               ELSE /\ inflight' = [inflight EXCEPT
                            ![h].pc = "getUsers",
                            ![h].requests =
                                [admin_requests EXCEPT ![requestIndex] =
                                    Spread(admin_requests[requestIndex],
                                           [approved |-> TRUE, approvedAt |-> toISOString(t),
                                            approvedBy |-> inflight[h].email])]]
                    /\ now' = t
                    /\ UNCHANGED resp
    /\ UNCHANGED <<admin_requests, admin_users, authUsers, handled>>
    /\ RaceAdminFrame

\* const adminUsers = await kv.get("admin_users") || []; the new AdminUser is
\* pushed onto that copy
RaceApproveGetUsers ==
    /\ \E h \in DOMAIN inflight :
        LET request == inflight[h].requests[findIndex(inflight[h].requests, inflight[h].id)]
        IN  /\ inflight[h].op = "approve"
            /\ inflight[h].pc = "getUsers"
            /\ Len(admin_users) < MaxAdmins
            /\ inflight' = [inflight EXCEPT
                    ![h].pc = "setRequests",
                    ![h].users = Append(admin_users,
                        [email |-> request.email, name |-> request.name, approved |-> TRUE,
                         approvedAt |-> request.approvedAt, approvedBy |-> inflight[h].email])]
    /\ UNCHANGED <<admin_requests, admin_users, authUsers, now, resp, handled>>
    /\ RaceAdminFrame

\* await kv.set("admin_requests", adminRequests)
RaceApproveSetRequests ==
    /\ \E h \in DOMAIN inflight :
        /\ inflight[h].op = "approve"
        /\ inflight[h].pc = "setRequests"
        /\ admin_requests' = inflight[h].requests
        /\ inflight' = [inflight EXCEPT ![h].pc = "setUsers"]
    /\ UNCHANGED <<admin_users, authUsers, now, resp, handled>>
    /\ RaceAdminFrame

\* await kv.set("admin_users", adminUsers); the handler answers 200
RaceApproveSetUsers ==
    /\ \E h \in DOMAIN inflight :
        /\ inflight[h].op = "approve"
        /\ inflight[h].pc = "setUsers"
        /\ admin_users' = inflight[h].users
        /\ inflight' = [inflight EXCEPT ![h] = Done(inflight[h], 200)]
        /\ resp' = Response("approve", 200, inflight[h].id, [token |-> inflight[h].email], <<>>)
    /\ UNCHANGED <<admin_requests, authUsers, now, handled>>
    /\ RaceAdminFrame

\* one of the two kv.set calls of the approve handler throws: catch, 500
RaceApproveFails ==
    /\ \E h \in DOMAIN inflight :
        /\ inflight[h].op = "approve"
        /\ inflight[h].pc \in {"setRequests", "setUsers"}
        /\ inflight' = [inflight EXCEPT ![h] = Done(inflight[h], 500)]
        /\ resp' = Response("approve", 500, inflight[h].id, [token |-> inflight[h].email], <<>>)
    /\ UNCHANGED <<admin_requests, admin_users, authUsers, now, handled>>
    /\ RaceAdminFrame

NextRaceAdmin ==
    \/ RaceSubmitStart
    \/ RaceSubmitGet
    \/ RaceSubmitSet
    \/ RaceApproveStart
    \/ RaceApproveGetRequests
    \/ RaceApproveGetUsers
    \/ RaceApproveSetRequests
    \/ RaceApproveSetUsers
    \/ RaceApproveFails

SpecRaceAdmin == InitRaceAdmin /\ [][NextRaceAdmin]_vars

\* every handler started has returned
AllReturned == \A h \in DOMAIN inflight : inflight[h].pc = "done"

\* handler h is a submit that returned success
Submitted(h) == inflight[h].op = "request" /\ inflight[h].pc = "done" /\ inflight[h].status = 200

\* handler h is an approve that returned success
Approved(h) == inflight[h].op = "approve" /\ inflight[h].pc = "done" /\ inflight[h].status = 200

\* the update of handler h is in admin_requests: the submitted request is in
\* the list, the approved request is approved
UpdateKept(h) ==
    \E i \in 1..Len(admin_requests) :
        /\ admin_requests[i].id = inflight[h].id
        /\ Approved(h) => admin_requests[i].approved

\* C26: the read-modify-write of admin_requests is not atomic.  When no
\* handler was started while another was between two awaits, the update of
\* every submit and approve that returned success is in admin_requests; with
\* two handlers interleaved both can return success and one update be gone
\* (the state C26_Witness).
C26_LostUpdateNeedsInterleaving ==
    (\A h \in DOMAIN inflight : ~inflight[h].overlaps) =>
        \A h \in DOMAIN inflight : (Submitted(h) \/ Approved(h)) => UpdateKept(h)

\* two submit handlers have both returned success, and admin_requests holds
\* the request of one of them only
C26_Witness ==
    /\ Len(inflight) = 2
    /\ Submitted(1)
    /\ Submitted(2)
    /\ inflight[1].email # inflight[2].email
    /\ Len(admin_requests) = 1
    /\ ~UpdateKept(1)
    /\ UpdateKept(2)

\* admin_users holds an entry with this email
IsAdminEmail(email) == \E i \in 1..Len(admin_users) : admin_users[i].email = email

\* C29: in every state in which an approve handler has finished, with success
\* or with a failure of one of its store writes, and no handler is between
\* two awaits, a request of admin_requests is approved exactly when
\* admin_users holds an entry with its email.
C29_ApprovalConsistent ==
    (/\ AllReturned
     /\ \E h \in DOMAIN inflight : inflight[h].op = "approve" /\ inflight[h].status \in {200, 500})
    => \A i \in 1..Len(admin_requests) :
            admin_requests[i].approved <=> IsAdminEmail(admin_requests[i].email)

-----------------------------------------------------------------------------
(* Claims about the stored project records *)

\* C27: in every reachable store, for any sequence of create and update
\* calls with any request bodies, the record stored under key k has id = k.
C27_KeyIsId ==
    \A k \in DOMAIN kvProjects : Has(kvProjects[k], "id") /\ kvProjects[k].id = k

-----------------------------------------------------------------------------
(* Server: the project handlers of part_002 await by await *)

\* a project handler that has just been entered
ProjectHandler(op, pc, status, id, updates) ==
    [op |-> op, pc |-> pc, status |-> status, id |-> id, updates |-> updates,
     record |-> <<>>, doomed |-> <<>>, removed |-> {},
     overlaps |-> \E h \in DOMAIN inflight : inflight[h].pc # "done"]

\* a project that was created with a deadline, beside the sample projects
DatedKey == ProjectKey(0, "a")
DatedProject == NewProject(DatedKey, [title |-> sReact, deadline |-> toISOString(0)], 0, 0)

InitRaceProjects ==
    /\ variant = "part_002"
    /\ kvProjects = StoreWith(sampleProjects, <<DatedProject>>)
    /\ admin_users = <<>>
    /\ admin_requests = <<>>
    /\ authUsers = {}
    /\ boot = BootDone(FALSE)
    /\ inflight = NoInflight
    /\ now = 0
    /\ resp = [op |-> "none", status |-> 0, id |-> <<>>, body |-> <<>>, result |-> <<>>]
    /\ createdIds = {DatedKey}
    /\ deletedIds = {}
    /\ handled = 0
    /\ ClientIdle

\* what no step of a project handler changes
RaceProjectsFrame ==
    /\ UNCHANGED <<variant, boot, admin_users, admin_requests, authUsers, createdIds, deletedIds>>
    /\ UNCHANGED clientVars

\* PUT /projects/:id up to its kv.set: kv.get, 404 when nothing is stored,
\* otherwise the merged record is built
RaceUpdateStart ==
    /\ Len(inflight) < MaxInflight
    /\ handled' = handled + 1
    /\ \E projectId \in RequestIds, updates \in UpdateBodies :
       \E t \in ClockAfter(now) :
        IF projectId \notin DOMAIN kvProjects
        THEN /\ inflight' = Append(inflight, ProjectHandler("update", "done", 404, projectId, updates))
             /\ resp' = WithToken(Response("update", 404, projectId, updates, <<>>), NoToken)
             /\ UNCHANGED now
        ELSE /\ inflight' = Append(inflight,
                    [ProjectHandler("update", "set", 0, projectId, updates)
                        EXCEPT !.record = MergeUpdate(kvProjects[projectId], updates, t)])
             /\ now' = t
             /\ UNCHANGED resp
    /\ UNCHANGED kvProjects
    /\ RaceProjectsFrame

\* await kv.set(projectId, updatedProject); the handler answers 200
RaceUpdateSet ==
    /\ \E h \in DOMAIN inflight :
        /\ inflight[h].op = "update"
        /\ inflight[h].pc = "set"
        /\ kvProjects' = Set(kvProjects, inflight[h].id, inflight[h].record)
        /\ inflight' = [inflight EXCEPT ![h].pc = "done", ![h].status = 200]
        /\ resp' = WithToken(Response("update", 200, inflight[h].id, inflight[h].updates,
                                      inflight[h].record), NoToken)
    /\ UNCHANGED <<now, handled>>
    /\ RaceProjectsFrame

\* DELETE /projects/:id up to its kv.del: kv.get, 404 when nothing is stored
RaceDeleteStart ==
    /\ Len(inflight) < MaxInflight
    /\ handled' = handled + 1
    /\ \E projectId \in RequestIds :
        IF projectId \notin DOMAIN kvProjects
        THEN /\ inflight' = Append(inflight, ProjectHandler("delete", "done", 404, projectId, <<>>))
             /\ resp' = WithToken(Response("delete", 404, projectId, <<>>, <<>>), NoToken)
        ELSE /\ inflight' = Append(inflight, ProjectHandler("delete", "del", 0, projectId, <<>>))
             /\ UNCHANGED resp
    /\ UNCHANGED <<kvProjects, now>>
    /\ RaceProjectsFrame

\* await kv.del(projectId); the handler answers 200
RaceDeleteDel ==
    /\ \E h \in DOMAIN inflight :
        /\ inflight[h].op = "delete"
        /\ inflight[h].pc = "del"
        /\ kvProjects' = Del(kvProjects, inflight[h].id)
        /\ inflight' = [inflight EXCEPT ![h].pc = "done", ![h].status = 200]
        /\ resp' = WithToken(Response("delete", 200, inflight[h].id, <<>>, <<>>), NoToken)
    /\ UNCHANGED <<now, handled>>
    /\ RaceProjectsFrame

\* GET /projects, cleanupExpiredProjects up to its first kv.del: the snapshot
\* of getByPrefix and the ids of its expired projects
RaceSweepStart ==
    /\ Len(inflight) < MaxInflight
    /\ handled' = handled + 1
    /\ \E t \in ClockAfter(now) :
       \E order \in StoreOrders({k \in DOMAIN kvProjects : Expired(kvProjects[k], t)}) :
        /\ inflight' = Append(inflight,
                [ProjectHandler("list", "sweep", 0, <<>>, NoQuery)
                    EXCEPT !.doomed = [i \in 1..Len(order) |-> kvProjects[order[i]].id]])
        /\ now' = t
    /\ UNCHANGED <<kvProjects, resp>>
    /\ RaceProjectsFrame

\* await kv.del(project.id) for the next expired project of the snapshot
RaceSweepDel ==
    /\ \E h \in DOMAIN inflight :
        /\ inflight[h].op = "list"
        /\ inflight[h].pc = "sweep"
        /\ inflight[h].doomed # <<>>
        /\ kvProjects' = Del(kvProjects, Head(inflight[h].doomed))
        /\ inflight' = [inflight EXCEPT ![h].doomed = Tail(@),
                                        ![h].removed = @ \cup {Head(inflight[h].doomed)}]
    /\ UNCHANGED <<now, resp, handled>>
    /\ RaceProjectsFrame

\* GET /projects after the sweep: the second getByPrefix, the filters and the
\* sort; the handler answers with the list
RaceListReturn ==
    /\ \E h \in DOMAIN inflight :
       \E order \in StoreOrders(DOMAIN kvProjects) :
        LET r == ServerFilter(Listing(kvProjects, order), NoQuery.category, NoQuery.skill,
                              NoQuery.urgency, NoQuery.search)
        IN  /\ inflight[h].op = "list"
            /\ inflight[h].pc = "sweep"
            /\ inflight[h].doomed = <<>>
            /\ inflight' = [inflight EXCEPT ![h].pc = "done", ![h].status = 200]
            /\ resp' = Response("list", 200, <<>>, NoQuery, SortNewestFirst(r.list))
    /\ UNCHANGED <<kvProjects, now, handled>>
    /\ RaceProjectsFrame

NextRaceProjects ==
    \/ RaceUpdateStart
    \/ RaceUpdateSet
    \/ RaceDeleteStart
    \/ RaceDeleteDel
    \/ RaceSweepStart
    \/ RaceSweepDel
    \/ RaceListReturn

SpecRaceProjects == InitRaceProjects /\ [][NextRaceProjects]_vars

\* handler h is an update that returned success
Updated(h) == inflight[h].op = "update" /\ inflight[h].pc = "done" /\ inflight[h].status = 200

\* the ids that a delete handler or a sweep has removed before returning
RemovedIds ==
    UNION {IF inflight[h].op = "delete" /\ inflight[h].status = 200 THEN {inflight[h].id}
           ELSE IF inflight[h].op = "list" /\ inflight[h].pc = "done" THEN inflight[h].removed
           ELSE {} : h \in DOMAIN inflight}

\* C28: once a delete or the sweep has removed a project and returned, its id
\* is in the store in no later state, whatever update of that id was between
\* its read and its write; and when two updates of one project that supply
\* different fields have both returned, the record holds the fields of both.
C28_DeletePermanent ==
    /\ \A id \in RemovedIds : id \notin DOMAIN kvProjects
    /\ \A g, h \in DOMAIN inflight :
        (/\ Updated(g) /\ Updated(h)
         /\ inflight[g].id = inflight[h].id
         /\ (DOMAIN inflight[g].updates) \cap (DOMAIN inflight[h].updates) = {}
         /\ RemovedIds = {})
        => /\ inflight[h].id \in DOMAIN kvProjects
           /\ \A f \in DOMAIN inflight[h].updates :
                f # "updatedAt" => kvProjects[inflight[h].id][f] = inflight[h].updates[f]

-----------------------------------------------------------------------------
(* Client: the loading flag of ProjectsPage, AddProjectPage and AdminCMS *)

\* the fetches of each fetchData, in the order it awaits them
PageStages == <<"projects", "categories", "skills">>
FormStages == <<"categories", "skills">>
CmsStages == <<"projects", "requests">>

\* how an awaited fetch with its json() ends: an array, an error body, a throw
FetchOutcomes == {"ok", "error", "throw"}

\* the accessToken prop of AdminCMS: null or the token App holds
DemoToken == "demo-token"
AccessTokens == {NoItem, DemoToken}

\* a component after its first render: the effect of the mount has not run
LoadMounted(loading, accessToken) ==
    [pc |-> "mounted", stage |-> 0, loading |-> loading, loaded |-> {},
     accessToken |-> accessToken]

InitLoad ==
    /\ ListIdle
    /\ page = LoadMounted(TRUE, NoItem)
    /\ form = LoadMounted(FALSE, NoItem)
    /\ app = AppIdle
    /\ \E accessToken \in AccessTokens : cms = LoadMounted(TRUE, accessToken)
    /\ ServerIdle

\* fetchData up to its first await: setLoading(true) and the first fetch
StartFetch(view) == [view EXCEPT !.pc = "fetching", !.stage = 1, !.loading = TRUE]

\* fetchData from one await to the next: an array goes to the state, an error
\* body leaves []; a throw or the end of the try runs finally, setLoading(false)
SettleFetch(view, stages, outcome) ==
    LET loaded == IF outcome = "ok" THEN view.loaded \cup {stages[view.stage]}
                  ELSE view.loaded
    IN  IF outcome = "throw"
        THEN [view EXCEPT !.pc = "settled", !.loading = FALSE]
        ELSE IF view.stage = Len(stages)
        THEN [view EXCEPT !.pc = "settled", !.loaded = loaded, !.loading = FALSE]
        ELSE [view EXCEPT !.stage = @ + 1, !.loaded = loaded]

\* the mount effect of ProjectsPage: fetchData()
LoadPageEffect ==
    /\ page.pc = "mounted"
    /\ page' = StartFetch(page)
    /\ UNCHANGED <<projects, filteredProjects, searchTerm, selectedCategory, selectedSkill,
                   selectedUrgency, filterStatus, form, app, cms>>
    /\ UNCHANGED serverVars

LoadPageSettle ==
    /\ page.pc = "fetching"
    /\ \E outcome \in FetchOutcomes : page' = SettleFetch(page, PageStages, outcome)
    /\ UNCHANGED <<projects, filteredProjects, searchTerm, selectedCategory, selectedSkill,
                   selectedUrgency, filterStatus, form, app, cms>>
    /\ UNCHANGED serverVars

\* the mount effect of AddProjectPage: fetchData()
LoadFormEffect ==
    /\ form.pc = "mounted"
    /\ form' = StartFetch(form)
    /\ UNCHANGED <<projects, filteredProjects, searchTerm, selectedCategory, selectedSkill,
                   selectedUrgency, filterStatus, page, app, cms>>
    /\ UNCHANGED serverVars

LoadFormSettle ==
    /\ form.pc = "fetching"
    /\ \E outcome \in FetchOutcomes : form' = SettleFetch(form, FormStages, outcome)
    /\ UNCHANGED <<projects, filteredProjects, searchTerm, selectedCategory, selectedSkill,
                   selectedUrgency, filterStatus, page, app, cms>>
    /\ UNCHANGED serverVars

\* the effect of AdminCMS on [accessToken]: fetchData() only with a token
LoadCmsEffect ==
    /\ cms.pc = "mounted"
    /\ cms' = IF cms.accessToken # NoItem /\ ~Falsy(cms.accessToken)
              THEN StartFetch(cms)
              ELSE [cms EXCEPT !.pc = "idle"]
    /\ UNCHANGED <<projects, filteredProjects, searchTerm, selectedCategory, selectedSkill,
                   selectedUrgency, filterStatus, page, form, app>>
    /\ UNCHANGED serverVars

LoadCmsSettle ==
    /\ cms.pc = "fetching"
    /\ \E outcome \in FetchOutcomes : cms' = SettleFetch(cms, CmsStages, outcome)
    /\ UNCHANGED <<projects, filteredProjects, searchTerm, selectedCategory, selectedSkill,
                   selectedUrgency, filterStatus, page, form, app>>
    /\ UNCHANGED serverVars

NextLoad ==
    \/ LoadPageEffect
    \/ LoadPageSettle
    \/ LoadFormEffect
    \/ LoadFormSettle
    \/ LoadCmsEffect
    \/ LoadCmsSettle

SpecLoad == InitLoad /\ [][NextLoad]_vars

\* React runs the effect of a mounted component, and every awaited fetch settles
LoadFairness ==
    /\ WF_vars(LoadPageEffect) /\ WF_vars(LoadPageSettle)
    /\ WF_vars(LoadFormEffect) /\ WF_vars(LoadFormSettle)
    /\ WF_vars(LoadCmsEffect) /\ WF_vars(LoadCmsSettle)

SpecLoadFair == SpecLoad /\ LoadFairness

\* C30: after the mount the loading flag of ProjectsPage, of AddProjectPage
\* and of AdminCMS becomes false and stays false, whatever the fetches do and
\* for every accessToken, null included: no view stays on the spinner.
C30_LoadingEnds ==
    /\ <>[](page.loading = FALSE)
    /\ <>[](form.loading = FALSE)
    /\ <>[](cms.loading = FALSE)

====
